---------------------------- MODULE Spec2Model ----------------------------
(***************************************************************************)
(* A model of the astra-update host: the per-device session                *)
(* (lib/astra_device.cpp), its USB endpoint I/O (lib/usb_device.cpp), the  *)
(* image byte source (lib/image.cpp) and the supervisor's session thread   *)
(* (lib/astra_device_manager.cpp).                                         *)
(*                                                                         *)
(* Three specifications share the module:                                  *)
(*   Spec      the session state machine and its threads                   *)
(*   SpecSend  SendImage / Image::GetDataBlock at byte level               *)
(*   SpecUsb   USBDevice Open / Write / HandleTransfer / Close             *)
(***************************************************************************)
EXTENDS Integers, Sequences, FiniteSets, TLC

(***************************************************************************)
(* Bounds of the model.                                                    *)
(***************************************************************************)
\* interrupt-in frames the device sends in one run of Spec
MaxFrames == 3

(***************************************************************************)
(* Program constants.                                                      *)
(***************************************************************************)
\* UpdateImageSizeRequestFile: "if (m_imageType > 0x79)"
SizeTagBoundary == 121
\* SendImage: imageHeaderSize = sizeof(uint32_t) * 2
imageHeaderSize == 8

\* AstraDeviceImpl string constants
m_usbPathImageFilename == "06_IMAGE"
m_sizeRequestImageFilename == "07_IMAGE"
m_uEnvFilename == "uEnv.txt"
MiniloaderName == "gen3_miniloader.bin.usb"

\* enum AstraDeviceStatus (names without the ASTRA_DEVICE_STATUS_ prefix)
AstraDeviceStatus ==
    { "ADDED", "OPENED", "CLOSED", "BOOT_START", "BOOT_PROGRESS",
      "BOOT_COMPLETE", "BOOT_FAIL", "UPDATE_START", "UPDATE_PROGRESS",
      "UPDATE_COMPLETE", "UPDATE_FAIL", "IMAGE_SEND_START",
      "IMAGE_SEND_PROGRESS", "IMAGE_SEND_COMPLETE", "IMAGE_SEND_FAIL" }

(***************************************************************************)
(* Session configurations: the constructor arguments of AstraDeviceImpl,   *)
(* the boot bundle handed to Boot() and the flash plan handed to Update(). *)
(* A boot-only session has no flash plan; an update session's boot command *)
(* is the flash command, which is never empty.                             *)
(***************************************************************************)
Configs ==
    { c \in [ bootOnly : BOOLEAN, uEnvSupport : BOOLEAN,
              bootCommandEmpty : BOOLEAN, ubootConsole : {"UART"},
              flashType : {"NONE", "EMMC", "SPI"},
              runContinuously : {FALSE}, resetWhenComplete : {TRUE} ] :
        /\ c.bootOnly => (c.flashType = "NONE" /\
                            (c.bootCommandEmpty <=> c.uEnvSupport))
        /\ ~c.bootOnly => (~c.bootCommandEmpty /\
                             (c.flashType = "EMMC" <=> c.uEnvSupport) /\
                             c.flashType # "NONE") }

\* AstraBootImage::Load for a secure-boot V3 bundle that is not a Linux bundle:
\* the bundle directory holds the miniloader and U-Boot, no uEnv.txt.
BundleImages ==
    << [name |-> MiniloaderName, type |-> "BOOT"],
       [name |-> "gen3_uboot.bin.usb", type |-> "BOOT"] >>

BundleFinalBootImage(c) ==
    IF c.uEnvSupport THEN m_uEnvFilename ELSE "gen3_uboot.bin.usb"

\* EmmcFlashImage::Load / SpiFlashImage::Load: the images of the plan and
\* its final image.
FlashImages(c) ==
    CASE c.flashType = "EMMC" ->
            << [name |-> "rootfs.subimg.gz", type |-> "UPDATE_EMMC"] >>
      [] c.flashType = "SPI" ->
            << [name |-> "uboot.bin", type |-> "UPDATE_SPI"] >>
      [] OTHER -> << >>

FlashFinalImage(c) ==
    CASE c.flashType = "EMMC" -> "rootfs.subimg.gz"
      [] c.flashType = "SPI" -> "uboot.bin"
      [] OTHER -> ""

(***************************************************************************)
(* Names and files.  Names are atomic strings; the two string operations   *)
(* the session applies to them are tabulated over the names of the model.  *)
(***************************************************************************)
\* std::string::find(needle) != npos, over the names of the model: no name
\* of the model is a proper substring of another, so find() hits exactly on
\* equal names (and on the empty needle, which the callers exclude).
Contains(hay, needle) == needle = "" \/ hay = needle

\* HandleImageRequests: "m_requestedImageName.substr(pos + 1)" after the
\* first '/'.
StripPrefix(n) ==
    CASE n = "emmc/rootfs.subimg.gz" -> "rootfs.subimg.gz"
      [] OTHER -> n

\* std::filesystem::file_size of the files behind the images (bytes).
FileSize(n) ==
    CASE n = MiniloaderName -> 5
      [] n = "gen3_uboot.bin.usb" -> 6
      [] n = m_uEnvFilename -> 8
      [] n = m_usbPathImageFilename -> 3
      [] n = m_sizeRequestImageFilename -> 4
      [] n = "rootfs.subimg.gz" -> 7
      [] n = "uboot.bin" -> 2
      [] OTHER -> 0

\* the request markers the device may send in a session of configuration c:
\* <<image-type tag, name>>.  Tag 0x80 asks for the size echo, tag 0x79 does
\* not.
DeviceRequests(c) ==
    { << 121, BundleFinalBootImage(c) >>,
      << 121, m_sizeRequestImageFilename >>,
      << 121, "nonexistent.img" >> }
      \cup (IF c.flashType = "NONE" THEN { << 128, MiniloaderName >> }
            ELSE { << 128, FlashFinalImage(c) >> })

VARIABLES
    cfg,                    \* the session's configuration
    m_status,               \* AstraDeviceImpl::m_status
    m_running,              \* AstraDeviceImpl::m_running
    m_shutdown,             \* AstraDeviceImpl::m_shutdown
    m_images,               \* AstraDeviceImpl::m_images
    m_finalBootImage,
    m_finalUpdateImage,
    m_imageRequestReady,
    m_imageRequestThreadReady,
    m_imageType,
    m_requestedImageName,
    waitForSizeRequest,     \* local of HandleImageRequests
    reqImage,               \* HandleImageRequests: the Image* being sent
    reqRet,                 \* HandleImageRequests: ret of SendImage
    sizeFile,               \* 07_IMAGE: << >> while absent, else << its uint32 >>
    imageMutex,             \* holder of m_imageMutex
    closeMutex,             \* holder of AstraDeviceImpl::m_closeMutex
    m_callbackQueue,        \* USBDevice::m_callbackQueue
    m_callbackThreadRunning,
    usbRunning,             \* USBDevice::m_running
    usbShutdown,            \* USBDevice::m_shutdown
    appPc,                  \* AstraDeviceThread (the application thread)
    reqPc,                  \* ImageRequestThread
    cbPc,                   \* CallbackWorkerThread
    mainPc,                 \* the main thread (AstraDeviceManager::Shutdown)
    closePc,                \* per caller: its place inside AstraDeviceImpl::Close
    sink,                   \* the user callback's invocations, in order
    closeReturned,          \* a Close() call of the session has returned
    received,               \* request markers handled by HandleInterrupt, in order
    served,                 \* requests looked up by the serving thread, in order
    reqServing,             \* index in received of the request whose flag the
                            \* serving thread consumed last
    framesSent,             \* interrupt-in frames completed so far
    queuedAtEnable,         \* SpecQueue: m_callbackQueue as EnableInterrupts()
                            \* found it
    \* SendImage and Image at byte level (SpecSend)
    sendPc,                 \* the place inside SendImage
    fileSize,               \* std::filesystem::file_size of the image file
    m_imageSize,            \* Image::m_imageSize
    filePos,                \* ftell(m_fp)
    blockCapacity,          \* the size SendImage passes to GetDataBlock
    totalTransferSize,      \* SendImage: const int totalTransferSize
    totalTransferred,       \* SendImage: int totalTransferred
    dataBlockSize,          \* SendImage: int dataBlockSize
    wire,                   \* what bulk-out carried, as segments in order
    sendRet,                \* what SendImage returned
    \* USBDevice at the level of its transfers (SpecUsb)
    xfer,                   \* m_inputInterruptXfer, m_outputInterruptXfer,
                            \* m_bulkWriteXfer: idle, inflight or freed
    libusbCalls,            \* how often each was freed, the interface
                            \* released, the handle closed, the device unref'd
    usbCloseMutex,          \* holder of USBDevice::m_closeMutex
    m_writeComplete,        \* USBDevice::m_writeComplete
    writePc,                \* the serving thread's place inside Write
    writesDone,             \* Write calls that returned 0
    usbClosePc,             \* per caller: its place inside Close
    m_handle,               \* USBDevice::m_handle: "open" or "null"
    stalls,                 \* transfers that ended with LIBUSB_TRANSFER_STALL
    consoleOut,             \* the strings SendToConsole wrote to the console
    consoleFrames,          \* console frames the device has sent
    submits,                \* Write: the libusb_submit_transfer calls of the
                            \* Write call under way
    bulkRefilled,           \* the bulk-out transfer was filled or submitted
                            \* while a submission of it was in flight
    \* AstraDeviceManagerImpl
    m_failureReported,      \* AstraDeviceManagerImpl::m_failureReported
    m_removeTempOnClose,    \* AstraDeviceManagerImpl::m_removeTempOnClose
    tempRoot,               \* m_tempDir on disk: "present" or "removed"
    exitCode,               \* << >> until main returns, then << its value >>
    \* USBTransport and WinUSBTransport (SpecTransport)
    transportKind,          \* "hotplug" (USBTransport) or "windows"
    filterPorts,            \* the string Init() was given, as characters
    m_filterPorts,          \* USBTransport::m_filterPorts
    handed,                 \* bus paths handed to m_deviceAddedCallback
    opened,                 \* bus paths libusb_open was called on
    rejected,               \* bus paths logged as not on a monitored port
    arrivals,               \* devices the transport has looked at
    winPc,                  \* the place inside ProcessPendingDevices
    retry,                  \* ProcessPendingDevices: bool retry
    retryCount,             \* ProcessPendingDevices: int retryCount
    \* AstraDeviceManagerImpl::Update choosing the boot bundle (SpecBundle)
    m_bootImages,           \* BootImageCollection::m_bootImages, in load order
    m_bootImage,            \* the index in m_bootImages of the chosen bundle,
                            \* 0 while none is chosen
    updatePc,               \* the place of the main thread inside Update
    \* AstraDeviceImpl::HandleInterrupt reading the bytes of a frame (SpecFrame)
    irqMessage,             \* the bytes of the frame handed to HandleInterrupt
    irqHandled,             \* << >>, or what HandleInterrupt did with it
    m_devicesMutex,         \* "free", or the thread that holds the lock
    m_devices,              \* the sessions of the manager: "open" or "closed"
    managerPc,              \* where the main thread is in Shutdown
    monitorPc,              \* where the event thread of the transport is
    monitorRunning          \* USBTransport::m_running

vars == << cfg, m_status, m_running, m_shutdown, m_images, m_finalBootImage,
           m_finalUpdateImage, m_imageRequestReady, m_imageRequestThreadReady,
           m_imageType, m_requestedImageName, waitForSizeRequest, reqImage,
           reqRet, sizeFile, imageMutex, closeMutex, m_callbackQueue,
           m_callbackThreadRunning, usbRunning, usbShutdown, appPc, reqPc,
           cbPc, mainPc, closePc, sink, closeReturned, received, served,
           reqServing, framesSent, queuedAtEnable, sendPc, fileSize,
           m_imageSize, filePos,
           blockCapacity, totalTransferSize, totalTransferred, dataBlockSize,
           wire, sendRet, xfer, libusbCalls, usbCloseMutex, m_writeComplete,
           writePc, writesDone, usbClosePc, m_handle, stalls, bulkRefilled,
           submits,
           consoleOut, consoleFrames, m_failureReported, m_removeTempOnClose,
           tempRoot, exitCode, transportKind, filterPorts, m_filterPorts,
           handed, opened, rejected, arrivals, winPc, retry, retryCount,
           m_bootImages, m_bootImage, updatePc, irqMessage,
           irqHandled, m_devicesMutex, m_devices, managerPc, monitorPc,
           monitorRunning >>

\* the variables of SendImage at byte level
sendVars == << sendPc, fileSize, m_imageSize, filePos, blockCapacity,
              totalTransferSize, totalTransferred, dataBlockSize, wire,
              sendRet >>

\* the variables of USBDevice at the level of its transfers
usbVars == << xfer, libusbCalls, usbCloseMutex, m_writeComplete, writePc,
             writesDone, usbClosePc, m_handle, stalls, bulkRefilled,
             submits >>

\* the console as SpecConsole sees it
consoleVars == << consoleOut, consoleFrames >>

\* the variables of AstraDeviceManagerImpl
managerVars == << m_failureReported, m_removeTempOnClose, tempRoot, exitCode >>

\* the variables of the transport
transportVars == << transportKind, filterPorts, m_filterPorts, handed, opened,
                   rejected, arrivals, winPc, retry, retryCount >>

\* the variables of the reading of a frame
frameVars == << irqMessage, irqHandled >>

\* the device list of the manager, its lock, and the event thread
monitorVars == << m_devicesMutex, m_devices, managerPc, monitorPc,
                 monitorRunning >>

\* the variables of the choice of the boot bundle
bundleVars == << m_bootImages, m_bootImage, updatePc >>

\* what the threads of a session leave alone
hostVars == << managerVars, transportVars, bundleVars, frameVars,
              monitorVars >>

\* what no action of the session changes: its configuration, and the
\* variables of the other specifications
fixed == << cfg, sendVars, usbVars, consoleVars, hostVars >>

\* the threads that call AstraDeviceImpl::Close: AstraDeviceThread at its end
\* and the main thread through AstraDeviceManagerImpl::Shutdown
Closers == {"app", "main"}

NoImage == [name |-> "", type |-> "BOOT"]

\* AstraDeviceImpl(): the members' initialisers.  m_status has none; no code
\* reads it before Boot() assigns OPENED, and the model starts it at the
\* enum's first value.
SessionInit ==
    /\ m_status = "ADDED"
    /\ m_running = FALSE
    /\ m_shutdown = FALSE
    /\ m_images = << >>
    /\ m_finalBootImage = ""
    /\ m_finalUpdateImage = ""
    /\ m_imageRequestReady = FALSE
    /\ m_imageRequestThreadReady = FALSE
    /\ m_imageType = 0
    /\ m_requestedImageName = ""
    /\ waitForSizeRequest = FALSE
    /\ reqImage = NoImage
    /\ reqRet = 0
    /\ sizeFile = << >>
    /\ imageMutex = "free"
    /\ closeMutex = "free"
    /\ m_callbackQueue = << >>
    /\ m_callbackThreadRunning = FALSE
    /\ usbRunning = FALSE
    /\ usbShutdown = FALSE
    /\ appPc = "boot"
    /\ reqPc = "unborn"
    /\ cbPc = "unborn"
    /\ mainPc = "run"
    /\ closePc = [t \in Closers |-> "out"]
    /\ sink = << >>
    /\ closeReturned = FALSE
    /\ consoleOut = << >>
    /\ consoleFrames = 0
    /\ received = << >>
    /\ served = << >>
    /\ reqServing = 0
    /\ queuedAtEnable = << >>
    /\ framesSent = 0

\* no send at byte level is under way
SendIdle ==
    /\ sendPc = "idle"
    /\ fileSize = << 0, 0 >>
    /\ m_imageSize = << 0, 0 >>
    /\ filePos = << 0, 0 >>
    /\ blockCapacity = 0
    /\ totalTransferSize = 0
    /\ totalTransferred = 0
    /\ dataBlockSize = 0
    /\ wire = << >>
    /\ sendRet = 0

\* the transfers of USBDevice: the callers of USBDevice::Close are the two
\* callers of the session's Close and the destructor ~USBDevice
XferNames == {"in", "out", "bulk"}
UsbClosers == {"app", "main", "dtor"}

\* USBDevice(): no transfer allocated, nothing torn down
\* AstraDeviceManagerImpl(): no temp directory was given, so one is made and
\* removed on close; nothing has failed, main has not returned
NoExit == << >>

ManagerInit ==
    /\ m_failureReported = FALSE
    /\ m_removeTempOnClose = TRUE
    /\ tempRoot = "present"
    /\ exitCode = NoExit

\* no frame is looked at byte by byte
\* the manager runs, its device list is empty and unlocked, and the event
\* thread of the transport handles events
MonitorIdle ==
    /\ m_devicesMutex = "free"
    /\ m_devices = << >>
    /\ managerPc = "running"
    /\ monitorPc = "events"
    /\ monitorRunning = TRUE

FrameIdle ==
    /\ MonitorIdle
    /\ irqMessage = << >>
    /\ irqHandled = << >>

\* the boot bundle was chosen before the session started
BundleIdle ==
    /\ FrameIdle
    /\ m_bootImages = << >>
    /\ m_bootImage = 0
    /\ updatePc = "done"

\* a transport that sees no device: the session was handed its device
TransportIdle ==
    /\ BundleIdle
    /\ transportKind = "hotplug"
    /\ filterPorts = << >>
    /\ m_filterPorts = << >>
    /\ handed = {}
    /\ opened = {}
    /\ rejected = {}
    /\ arrivals = 0
    /\ winPc = "idle"
    /\ retry = FALSE
    /\ retryCount = 0

UsbIdle ==
    /\ xfer = [x \in XferNames |-> "idle"]
    /\ libusbCalls = [freed |-> [x \in XferNames |-> 0], released |-> 0,
                      closed |-> 0, unref |-> 0]
    /\ usbCloseMutex = "free"
    /\ m_writeComplete = FALSE
    /\ writePc = "idle"
    /\ writesDone = 0
    /\ usbClosePc = [c \in UsbClosers |-> "out"]
    /\ m_handle = "null"
    /\ stalls = 0
    /\ bulkRefilled = FALSE
    /\ submits = 0

Init ==
    /\ cfg \in Configs
    /\ SessionInit
    /\ SendIdle
    /\ UsbIdle
    /\ ManagerInit
    /\ TransportIdle

(***************************************************************************)
(* Helpers of the session.                                                 *)
(***************************************************************************)
DeviceEvent(status, progress, imageName, message) ==
    [kind |-> "device", status |-> status, progress |-> progress,
     image |-> imageName, message |-> message]

ManagerEvent(status, message) ==
    [kind |-> "manager", status |-> status, progress |-> 0,
     image |-> "", message |-> message]

\* AstraDeviceImpl::SendStatus: the size-echo image is filtered out
SendStatus(s, status, progress, imageName, message) ==
    IF imageName # m_sizeRequestImageFilename
    THEN Append(s, DeviceEvent(status, progress, imageName, message))
    ELSE s

\* a sequence of SendStatus calls for one image
RECURSIVE SendStatusAll(_, _)
SendStatusAll(s, evs) ==
    IF evs = << >> THEN s
    ELSE SendStatusAll(SendStatus(s, evs[1].status, evs[1].progress,
                                  evs[1].image, evs[1].message), Tail(evs))

\* std::find_if over m_images: the index of the first image of that name, 0
\* when there is none
FindImage(images, n) ==
    IF \E i \in 1..Len(images) : images[i].name = n
    THEN CHOOSE i \in 1..Len(images) :
            /\ images[i].name = n
            /\ \A j \in 1..(i - 1) : images[j].name # n
    ELSE 0

\* Image::Load: std::filesystem::exists(m_imagePath).  The bundle's and the
\* plan's files exist, Boot() writes 06_IMAGE and uEnv.txt; 07_IMAGE exists
\* once UpdateImageSizeRequestFile has written it.
FileExists(n, sz) ==
    IF n = m_sizeRequestImageFilename THEN sz # << >> ELSE TRUE

\* m_deviceEventCV.notify_all(): a thread blocked in WaitForCompletion wakes
NotifyDeviceEvent(pc) == IF pc = "wfc_wait" THEN "wfc_woken" ELSE pc

\* a frame without the request marker is console text: its tag is NoMarker
\* and its name the text
NoMarker == 0 - 1
m_uBootPrompt == "=>"

\* AstraConsole::Append: the text ends with the U-Boot prompt (over the texts
\* of the model, which are the prompt itself and a line that is not)
PromptDetected(text) == text = m_uBootPrompt

\* m_promptCV.notify_one(): a thread blocked in AstraConsole::WaitForPrompt
\* returns true
NotifyPrompt(pc) ==
    CASE pc = "update_prompt" -> "update_send"
      [] pc = "wfc_prompt" -> "wfc_prompted"
      [] OTHER -> pc

\* AstraConsole::Shutdown: m_shutdown set and notify_all; a thread blocked in
\* WaitForPrompt returns false, and its caller returns
ShutdownPrompt(pc) ==
    CASE pc = "update_prompt" -> "wfc"
      [] pc = "wfc_prompt" -> "post_wfc"
      [] OTHER -> pc

\* ((double)totalTransferred / totalTransferSize) * 100, as whole percent
Percent(done, total) == (done * 100) \div total

(***************************************************************************)
(* AstraDeviceImpl::Boot, Update, WaitForCompletion: the application       *)
(* thread (AstraDeviceManagerImpl::AstraDeviceThread).                     *)
(***************************************************************************)
sessionData == << m_images, m_finalBootImage, m_finalUpdateImage >>
requestSlot == << m_imageRequestReady, m_imageType, m_requestedImageName >>
reqLocals == << waitForSizeRequest, reqImage, reqRet >>
usbState == << m_callbackQueue, m_callbackThreadRunning, usbRunning,
               usbShutdown >>
history == << received, served, reqServing, framesSent, queuedAtEnable >>

\* AstraDeviceManagerImpl::ResponseCallback: a Failure manager event and a
\* BOOT_FAIL or UPDATE_FAIL device event are failures
IsFailureResponse(response) ==
    \/ response.kind = "manager" /\ response.status = "FAILURE"
    \/ response.kind = "device" /\ response.status \in {"BOOT_FAIL", "UPDATE_FAIL"}

\* Boot() returns a negative value (USBDevice::Open failed): AstraDeviceThread
\* reports BOOT_FAIL through ResponseCallback and returns without Close()
BootFailed ==
    /\ appPc = "boot"
    /\ LET response == DeviceEvent("BOOT_FAIL", 0, "", "Failed to Boot Device")
       IN /\ m_failureReported' =
                (m_failureReported \/ IsFailureResponse(response))
          /\ m_removeTempOnClose' =
                (m_removeTempOnClose /\ ~IsFailureResponse(response))
          /\ sink' = Append(sink, response)
    /\ appPc' = "done"
    /\ UNCHANGED << cfg, sendVars, usbVars, consoleVars, transportVars,
                    bundleVars, frameVars, monitorVars,
                    tempRoot, exitCode, m_status, m_running, m_shutdown,
                    sessionData, requestSlot, m_imageRequestThreadReady,
                    reqLocals, sizeFile, imageMutex, closeMutex, usbState,
                    reqPc, cbPc, mainPc, closePc, closeReturned, history >>

\* Boot() up to "m_status = ASTRA_DEVICE_STATUS_OPENED": USBDevice::Open has
\* posted the interrupt-in transfer
BootOpen ==
    /\ appPc = "boot"
    /\ m_finalBootImage' = BundleFinalBootImage(cfg)
    /\ usbRunning' = TRUE
    /\ m_status' = "OPENED"
    /\ appPc' = "boot_prepare"
    /\ UNCHANGED << fixed, m_running, m_shutdown, m_images, m_finalUpdateImage,
                    requestSlot, m_imageRequestThreadReady, reqLocals,
                    sizeFile, imageMutex, closeMutex, m_callbackQueue,
                    m_callbackThreadRunning, usbShutdown, reqPc, cbPc,
                    mainPc, closePc, sink, closeReturned, history >>

\* an image of the list is named uEnv.txt
HasUEnvImage(images) ==
    \E i \in 1..Len(images) : images[i].name = m_uEnvFilename

\* the image list Boot() builds under m_imageMutex from the images of the
\* bundle: uEnv.txt is made when the bundle has none and supports uEnv, then
\* 06_IMAGE and 07_IMAGE
BootImagesWith(bundleImages, uEnvSupport) ==
    LET withUEnv == IF ~HasUEnvImage(bundleImages) /\ uEnvSupport
                    THEN Append(bundleImages,
                                [name |-> m_uEnvFilename, type |-> "BOOT"])
                    ELSE bundleImages
    IN withUEnv \o << [name |-> m_usbPathImageFilename, type |-> "BOOT"],
                      [name |-> m_sizeRequestImageFilename,
                       type |-> "UPDATE_EMMC"] >>

\* a Boot() that never overrides the final-boot image
FinalBootImageOfBundle(images, uEnv, cmdEmpty, bootOnly, linux, final) ==
    final

\* the final-boot image after Boot(): uEnv.txt when it was made for an empty
\* boot command, and "if (!m_bootOnly && bootImage->IsLinuxBoot())"
FinalBootImageWith(images, uEnv, cmdEmpty, bootOnly, linux, final) ==
    IF ~bootOnly /\ linux
    THEN m_uEnvFilename
    ELSE IF ~HasUEnvImage(images) /\ uEnv /\ cmdEmpty
         THEN m_uEnvFilename
         ELSE final

\* the image list Boot() builds in the sessions of Configs
BootImageList(c) == BootImagesWith(BundleImages, c.uEnvSupport)

\* the final-boot image after Boot() in the sessions of Configs (their
\* bundles are not Linux bundles)
BootFinalImage(c, bundleFinal) ==
    FinalBootImageWith(BundleImages, c.uEnvSupport, c.bootCommandEmpty,
                       c.bootOnly, FALSE, bundleFinal)

\* Boot(): the image list, m_running, BOOT_START, the request thread
BootPrepare ==
    /\ appPc = "boot_prepare"
    /\ imageMutex = "free"
    /\ m_images' = m_images \o BootImageList(cfg)
    /\ m_finalBootImage' = BootFinalImage(cfg, m_finalBootImage)
    /\ m_running' = TRUE
    /\ m_status' = "BOOT_START"
    /\ reqPc' = "start"
    /\ appPc' = "boot_wait_ready"
    /\ UNCHANGED << fixed, m_shutdown, m_finalUpdateImage, requestSlot,
                    m_imageRequestThreadReady, reqLocals, sizeFile,
                    imageMutex, closeMutex, usbState, cbPc, mainPc, closePc,
                    sink, closeReturned, history >>

\* Boot(): the ready handshake, then USBDevice::EnableInterrupts starts the
\* callback worker
EnableInterrupts ==
    /\ appPc = "boot_wait_ready"
    /\ m_imageRequestThreadReady
    /\ m_callbackThreadRunning' = TRUE
    /\ cbPc' = "head"
    /\ appPc' = IF cfg.bootOnly THEN "wfc" ELSE "update"
    /\ UNCHANGED << fixed, m_status, m_running, m_shutdown, sessionData,
                    requestSlot, m_imageRequestThreadReady, reqLocals,
                    sizeFile, imageMutex, closeMutex, m_callbackQueue,
                    usbRunning, usbShutdown, reqPc, mainPc, closePc, sink,
                    closeReturned, received, served, reqServing,
                    framesSent >>

BootEnable ==
    /\ EnableInterrupts
    /\ UNCHANGED queuedAtEnable

\* the same step, with the queue it found remembered in queuedAtEnable
BootEnableObserved ==
    /\ EnableInterrupts
    /\ queuedAtEnable' = m_callbackQueue

\* AstraDeviceImpl::Update: the plan's final image and images (the console
\* branch needs "!m_uEnvSupport && USB console")
Update ==
    /\ appPc = "update"
    /\ imageMutex = "free"
    /\ m_finalUpdateImage' = FlashFinalImage(cfg)
    /\ m_images' = m_images \o FlashImages(cfg)
    /\ appPc' = IF ~cfg.uEnvSupport /\ cfg.ubootConsole = "USB"
                THEN "update_prompt" ELSE "wfc"
    /\ UNCHANGED << fixed, m_status, m_running, m_shutdown, m_finalBootImage,
                    requestSlot, m_imageRequestThreadReady, reqLocals,
                    sizeFile, imageMutex, closeMutex, usbState, reqPc, cbPc,
                    mainPc, closePc, sink, closeReturned, history >>

\* WaitForCompletion: "m_deviceEventCV.wait(lock)", a wait with no predicate
WfcWait ==
    /\ appPc = "wfc"
    /\ cfg.uEnvSupport \/ cfg.ubootConsole = "UART"
    /\ appPc' = "wfc_wait"
    /\ UNCHANGED << fixed, m_status, m_running, m_shutdown, sessionData,
                    requestSlot, m_imageRequestThreadReady, reqLocals,
                    sizeFile, imageMutex, closeMutex, usbState, reqPc, cbPc,
                    mainPc, closePc, sink, closeReturned, history >>

\* the status WaitForCompletion reports as success
WfcSuccessStatus(c) ==
    IF c.bootOnly THEN "BOOT_COMPLETE" ELSE "UPDATE_COMPLETE"

\* WaitForCompletion after a wake-up: the success report, then the m_running
\* test that ends the loop
WfcWoken ==
    /\ appPc = "wfc_woken"
    /\ sink' = IF m_status = WfcSuccessStatus(cfg)
               THEN SendStatus(sink, m_status, 100, "", "Success")
               ELSE sink
    /\ appPc' = IF ~m_running THEN "post_wfc" ELSE "wfc_wait"
    /\ UNCHANGED << fixed, m_status, m_running, m_shutdown, sessionData,
                    requestSlot, m_imageRequestThreadReady, reqLocals,
                    sizeFile, imageMutex, closeMutex, usbState, reqPc, cbPc,
                    mainPc, closePc, closeReturned, history >>

\* AstraDeviceThread after WaitForCompletion: the test that decides on the
\* Shutdown manager event
ShutdownDue(c, status) ==
    \/ status = "UPDATE_COMPLETE" /\ ~c.runContinuously
    \/ c.bootOnly /\ status = "BOOT_COMPLETE" /\ ~c.runContinuously

\* AstraDeviceThread after WaitForCompletion: the Shutdown manager event
\* (through ResponseCallback, for which it is no failure), then
\* astraDevice->Close()
PostWfc ==
    /\ appPc = "post_wfc"
    /\ sink' = IF ShutdownDue(cfg, m_status)
               THEN Append(sink, ManagerEvent("SHUTDOWN",
                                    "Astra Device Manager shutting down"))
               ELSE sink
    /\ appPc' = "close"
    /\ closePc' = [closePc EXCEPT !["app"] = "enter"]
    /\ UNCHANGED << fixed, m_status, m_running, m_shutdown, sessionData,
                    requestSlot, m_imageRequestThreadReady, reqLocals,
                    sizeFile, imageMutex, closeMutex, usbState, reqPc, cbPc,
                    mainPc, closeReturned, history >>

\* AstraDeviceThread returns once its Close() has returned
AppDone ==
    /\ appPc = "close"
    /\ closePc["app"] = "done"
    /\ appPc' = "done"
    /\ UNCHANGED << fixed, m_status, m_running, m_shutdown, sessionData,
                    requestSlot, m_imageRequestThreadReady, reqLocals,
                    sizeFile, imageMutex, closeMutex, usbState, reqPc, cbPc,
                    mainPc, closePc, sink, closeReturned, history >>

\* AstraDeviceManagerImpl::Shutdown on the main thread (SIGINT, or the
\* Shutdown event): device->Close().  The model delivers it once Boot() has
\* returned.
Shutdown ==
    /\ mainPc = "run"
    /\ appPc \notin {"boot", "boot_prepare", "boot_wait_ready"}
    /\ mainPc' = "shutdown"
    /\ closePc' = [closePc EXCEPT !["main"] = "enter"]
    /\ UNCHANGED << fixed, m_status, m_running, m_shutdown, sessionData,
                    requestSlot, m_imageRequestThreadReady, reqLocals,
                    sizeFile, imageMutex, closeMutex, usbState, appPc, reqPc,
                    cbPc, sink, closeReturned, history >>

\* AstraDeviceManagerImpl::Shutdown once device->Close() has returned: the
\* temp directory is removed if m_removeTempOnClose, m_failureReported is
\* returned and main turns it into its exit code
ShutdownReturn ==
    /\ mainPc = "shutdown"
    /\ closePc["main"] = "done"
    /\ tempRoot' = IF m_removeTempOnClose THEN "removed" ELSE tempRoot
    /\ exitCode' = IF m_failureReported THEN << 0 - 1 >> ELSE << 0 >>
    /\ mainPc' = "exited"
    /\ UNCHANGED << cfg, sendVars, usbVars, consoleVars, transportVars,
                    bundleVars, frameVars, monitorVars,
                    m_failureReported, m_removeTempOnClose, m_status,
                    m_running, m_shutdown, sessionData, requestSlot,
                    m_imageRequestThreadReady, reqLocals, sizeFile,
                    imageMutex, closeMutex, usbState, appPc, reqPc, cbPc,
                    closePc, sink, closeReturned, history >>

(***************************************************************************)
(* AstraDeviceImpl::Close, by caller t.                                    *)
(***************************************************************************)
\* "lock_guard(m_closeMutex); if (!m_shutdown.exchange(true))": the first
\* caller clears m_running and notifies both condition variables; a later
\* caller finds m_shutdown set and returns
CloseEnter(t) ==
    /\ closePc[t] = "enter"
    /\ closeMutex = "free"
    /\ IF m_shutdown
       THEN /\ closePc' = [closePc EXCEPT ![t] = "done"]
            /\ closeReturned' = TRUE
            /\ UNCHANGED << m_shutdown, m_running, appPc, closeMutex >>
       ELSE /\ m_shutdown' = TRUE
            /\ m_running' = FALSE
            /\ appPc' = NotifyDeviceEvent(appPc)
            /\ closeMutex' = t
            /\ closePc' = [closePc EXCEPT ![t] = "join_req"]
            /\ UNCHANGED closeReturned
    /\ UNCHANGED << fixed, m_status, sessionData, requestSlot,
                    m_imageRequestThreadReady, reqLocals, sizeFile,
                    imageMutex, usbState, reqPc, cbPc, mainPc, sink,
                    history >>

\* "m_imageRequestThread.join()", the console shutdown, "m_images.clear()",
\* then the head of USBDevice::Close: "m_callbackThreadRunning.exchange(false)"
CloseJoinRequestThread(t) ==
    /\ closePc[t] = "join_req"
    /\ reqPc \in {"unborn", "exited"}
    /\ m_images' = << >>
    /\ m_callbackThreadRunning' = FALSE
    /\ appPc' = ShutdownPrompt(appPc)
    /\ closePc' = [closePc EXCEPT ![t] = "usb_close"]
    /\ UNCHANGED << fixed, m_status, m_running, m_shutdown, m_finalBootImage,
                    m_finalUpdateImage, requestSlot,
                    m_imageRequestThreadReady, reqLocals, sizeFile,
                    imageMutex, closeMutex, m_callbackQueue, usbRunning,
                    usbShutdown, reqPc, cbPc, mainPc, sink,
                    closeReturned, history >>

\* USBDevice::Close from the join of the callback worker: under its
\* m_closeMutex, "if (!m_shutdown.exchange(true))" clears m_running, cancels
\* and frees the transfers and closes the handle; then AstraDeviceImpl::Close
\* returns.  (Events the cancellations queue find the worker gone.)
CloseUsbDevice(t) ==
    /\ closePc[t] = "usb_close"
    /\ cbPc \in {"unborn", "exited"}
    /\ usbShutdown' = TRUE
    /\ usbRunning' = FALSE
    /\ closeMutex' = "free"
    /\ closePc' = [closePc EXCEPT ![t] = "done"]
    /\ closeReturned' = TRUE
    /\ UNCHANGED << fixed, m_status, m_running, m_shutdown, sessionData,
                    requestSlot, m_imageRequestThreadReady, reqLocals,
                    sizeFile, imageMutex, m_callbackQueue,
                    m_callbackThreadRunning, appPc, reqPc, cbPc, mainPc,
                    sink, history >>

(***************************************************************************)
(* The device and the USB event thread (USBDevice::HandleTransfer on the   *)
(* interrupt-in transfer).                                                 *)
(***************************************************************************)
\* a queue that takes each event in front of the earlier ones
QueueEventInFront(q, event, tag, name) ==
    << [event |-> event, tag |-> tag, name |-> name] >> \o q

\* queueEvent of HandleTransfer
QueueEvent(q, event, tag, name) ==
    Append(q, [event |-> event, tag |-> tag, name |-> name])

\* LIBUSB_TRANSFER_COMPLETED on interrupt-in: the frame is queued and the
\* transfer resubmitted.  The frame is a request marker with tag and name.
DeviceRequest(tag, name) ==
    /\ usbRunning
    /\ framesSent < MaxFrames
    /\ m_callbackQueue' = QueueEvent(m_callbackQueue, "INTERRUPT", tag, name)
    /\ framesSent' = framesSent + 1
    /\ UNCHANGED << fixed, m_status, m_running, m_shutdown, sessionData,
                    requestSlot, m_imageRequestThreadReady, reqLocals,
                    sizeFile, imageMutex, closeMutex,
                    m_callbackThreadRunning, usbRunning, usbShutdown, appPc,
                    reqPc, cbPc, mainPc, closePc, sink, closeReturned,
                    received, served, reqServing, queuedAtEnable >>

\* LIBUSB_TRANSFER_NO_DEVICE on interrupt-in: the device has gone
DeviceDisconnect ==
    /\ usbRunning
    /\ usbRunning' = FALSE
    /\ m_callbackQueue' = QueueEvent(m_callbackQueue, "NO_DEVICE", 0, "")
    /\ UNCHANGED << fixed, m_status, m_running, m_shutdown, sessionData,
                    requestSlot, m_imageRequestThreadReady, reqLocals,
                    sizeFile, imageMutex, closeMutex,
                    m_callbackThreadRunning, usbShutdown, appPc, reqPc, cbPc,
                    mainPc, closePc, sink, closeReturned, history >>

(***************************************************************************)
(* USBDevice::CallbackWorkerThread and AstraDeviceImpl::USBEventHandler.   *)
(***************************************************************************)
\* "while (m_callbackThreadRunning.load())"
CallbackWorkerHead ==
    /\ cbPc = "head"
    /\ cbPc' = IF m_callbackThreadRunning THEN "wait" ELSE "exited"
    /\ UNCHANGED << fixed, m_status, m_running, m_shutdown, sessionData,
                    requestSlot, m_imageRequestThreadReady, reqLocals,
                    sizeFile, imageMutex, closeMutex, usbState, appPc, reqPc,
                    mainPc, closePc, sink, closeReturned, history >>

\* the wait ends with the queue empty and the thread stopped
CallbackWorkerExit ==
    /\ cbPc = "wait"
    /\ m_callbackQueue = << >>
    /\ ~m_callbackThreadRunning
    /\ cbPc' = "exited"
    /\ UNCHANGED << fixed, m_status, m_running, m_shutdown, sessionData,
                    requestSlot, m_imageRequestThreadReady, reqLocals,
                    sizeFile, imageMutex, closeMutex, usbState, appPc, reqPc,
                    mainPc, closePc, sink, closeReturned, history >>

\* AstraDeviceImpl::HandleInterrupt: a frame holding the request marker
\* fills the request slot, any other frame goes to the console
HandleInterrupt(ev) ==
    IF ev.tag # NoMarker
    THEN /\ m_status' = IF m_status = "BOOT_COMPLETE" /\ ~cfg.bootOnly
                        THEN "UPDATE_START" ELSE m_status
         /\ m_imageType' = ev.tag
         /\ m_requestedImageName' = ev.name
         /\ m_imageRequestReady' = TRUE
         /\ received' = Append(received, [name |-> ev.name, tag |-> ev.tag])
         /\ UNCHANGED << m_running, appPc, sink >>
    ELSE /\ appPc' = IF PromptDetected(ev.name) THEN NotifyPrompt(appPc)
                     ELSE appPc
         /\ UNCHANGED << m_status, requestSlot, received, m_running, sink >>

\* the status USBEventHandler moves to on a disconnect, cancel or error
DisconnectStatus(st) ==
    CASE st = "UPDATE_PROGRESS" -> "UPDATE_FAIL"
      [] st = "BOOT_PROGRESS" -> "BOOT_FAIL"
      [] OTHER -> st

\* AstraDeviceImpl::USBEventHandler on NO_DEVICE, TRANSFER_CANCELED or
\* TRANSFER_ERROR
HandleDeviceGone ==
    /\ IF m_requestedImageName = MiniloaderName
       THEN UNCHANGED << m_status, sink >>
       ELSE /\ m_status' = DisconnectStatus(m_status)
            /\ sink' = IF DisconnectStatus(m_status)
                            \notin {"UPDATE_COMPLETE", "BOOT_COMPLETE"}
                       THEN SendStatus(sink, DisconnectStatus(m_status), 0,
                                       "", "Device disconnected")
                       ELSE sink
    /\ m_running' = FALSE
    /\ appPc' = NotifyDeviceEvent(appPc)
    /\ UNCHANGED << requestSlot, received >>

\* the worker takes the front event and calls the session's callback
CallbackWorkerDispatch ==
    /\ cbPc = "wait"
    /\ m_callbackQueue # << >>
    /\ LET ev == Head(m_callbackQueue)
       IN IF ev.event = "INTERRUPT"
          THEN HandleInterrupt(ev)
          ELSE HandleDeviceGone
    /\ m_callbackQueue' = Tail(m_callbackQueue)
    /\ cbPc' = "head"
    /\ UNCHANGED << fixed, m_shutdown, sessionData, m_imageRequestThreadReady,
                    reqLocals, sizeFile, imageMutex, closeMutex,
                    m_callbackThreadRunning, usbRunning, usbShutdown, reqPc,
                    mainPc, closePc, closeReturned, served, reqServing,
                    framesSent, queuedAtEnable >>

(***************************************************************************)
(* AstraDeviceImpl::HandleImageRequests: the request-serving thread.       *)
(***************************************************************************)
\* "m_imageRequestThreadReady.store(true)" and the notify
ImageRequestThreadReady ==
    /\ reqPc = "start"
    /\ m_imageRequestThreadReady' = TRUE
    /\ reqPc' = "wait"
    /\ UNCHANGED << fixed, m_status, m_running, m_shutdown, sessionData,
                    requestSlot, reqLocals, sizeFile, imageMutex, closeMutex,
                    usbState, appPc, cbPc, mainPc, closePc, sink,
                    closeReturned, history >>

\* wait_for returns with its predicate true: the flag is consumed; then
\* "if (!m_running.load()) return 0"
RequestWake ==
    /\ reqPc = "wait"
    /\ m_imageRequestReady \/ ~m_running
    /\ m_imageRequestReady' = FALSE
    /\ reqServing' = IF m_imageRequestReady THEN Len(received) ELSE reqServing
    /\ reqPc' = IF ~m_running THEN "exited" ELSE "lookup"
    /\ UNCHANGED << fixed, m_status, m_running, m_shutdown, sessionData,
                    m_imageType, m_requestedImageName,
                    m_imageRequestThreadReady, reqLocals, sizeFile,
                    imageMutex, closeMutex, usbState, appPc, cbPc, mainPc,
                    closePc, sink, closeReturned, received, served,
                    framesSent, queuedAtEnable >>

\* wait_for times out after 10 s with its predicate false, in BOOT_PROGRESS:
\* the failure event and "return -1".  (In any other status the loop
\* continues: no change of state.)
RequestTimeout ==
    /\ reqPc = "wait"
    /\ ~m_imageRequestReady /\ m_running
    /\ m_status = "BOOT_PROGRESS"
    /\ sink' = SendStatus(sink, "BOOT_FAIL", 0, "",
                  "Timeout during boot, press RESET while holding USB_BOOT to try again")
    /\ reqPc' = "exited"
    /\ UNCHANGED << fixed, m_status, m_running, m_shutdown, sessionData,
                    requestSlot, m_imageRequestThreadReady, reqLocals,
                    sizeFile, imageMutex, closeMutex, usbState, appPc, cbPc,
                    mainPc, closePc, closeReturned, history >>

\* the event of the lookup-miss branch; none outside boot and update
ImageNotFoundEvents(st, n) ==
    CASE st \in {"BOOT_START", "BOOT_PROGRESS"} ->
            << DeviceEvent("BOOT_FAIL", 0, n, "image not found") >>
      [] st \in {"UPDATE_START", "UPDATE_PROGRESS"} ->
            << DeviceEvent("UPDATE_FAIL", 0, n, "image not found") >>
      [] OTHER -> << >>

\* "if (m_status == BOOT_START) m_status = BOOT_PROGRESS; else if ..."
ProgressStatus(st) ==
    CASE st = "BOOT_START" -> "BOOT_PROGRESS"
      [] st = "UPDATE_START" -> "UPDATE_PROGRESS"
      [] OTHER -> st

\* the prefix strip of m_requestedImageName, then under m_imageMutex the
\* find_if over m_images: a miss reports and returns -1, a hit moves START to
\* PROGRESS
RequestLookup ==
    /\ reqPc = "lookup"
    /\ imageMutex = "free"
    /\ LET n == StripPrefix(m_requestedImageName)
           i == FindImage(m_images, n)
       IN /\ m_requestedImageName' = n
          /\ served' = Append(served, [req |-> reqServing, name |-> n,
                                      tag |-> m_imageType])
          /\ IF i = 0
             THEN /\ sink' = SendStatusAll(sink,
                                 ImageNotFoundEvents(m_status, n))
                  /\ reqPc' = "exited"
                  /\ UNCHANGED << m_status, reqImage, imageMutex >>
             ELSE /\ reqImage' = m_images[i]
                  /\ m_status' = ProgressStatus(m_status)
                  /\ imageMutex' = "req"
                  /\ reqPc' = "send"
                  /\ UNCHANGED sink
    /\ UNCHANGED << fixed, m_running, m_shutdown, sessionData,
                    m_imageRequestReady, m_imageType,
                    m_imageRequestThreadReady, waitForSizeRequest, reqRet,
                    sizeFile, closeMutex, usbState, appPc, cbPc, mainPc,
                    closePc, closeReturned, received, reqServing,
                    framesSent, queuedAtEnable >>

\* the SendStatus calls of SendImage for image n of size sz, by outcome
SendImageEvents(n, sz, outcome) ==
    LET start == DeviceEvent("IMAGE_SEND_START", 0, n, "")
        header == DeviceEvent("IMAGE_SEND_PROGRESS",
                     Percent(imageHeaderSize, sz + imageHeaderSize), n, "")
        whole == DeviceEvent("IMAGE_SEND_PROGRESS", 100, n, "")
        fail == DeviceEvent("IMAGE_SEND_FAIL", 0, n, "Failed to write image")
        complete == DeviceEvent("IMAGE_SEND_COMPLETE", 100, n, "")
    IN CASE outcome = "load" -> << >>
         [] outcome = "header" -> << start, fail >>
         [] OTHER -> << start, header, whole, complete >>

\* AstraDeviceImpl::UpdateImageSizeRequestFile: 07_IMAGE after the call
UpdateImageSizeRequestFile(file, imageType, size) ==
    IF imageType > SizeTagBoundary THEN << size >> ELSE file

\* AstraDeviceImpl::SendImage(image).  Image::Load fails when the file is
\* absent; USBDevice::Write fails (m_running cleared, or
\* libusb_submit_transfer fails), here on the header; a send that succeeds
\* wrote every byte, then updates 07_IMAGE from m_imageType.
SendImage(outcome) ==
    /\ reqPc = "send"
    /\ outcome = "load" <=> ~FileExists(reqImage.name, sizeFile)
    /\ outcome = "ok" => usbRunning
    /\ sink' = SendStatusAll(sink,
                  SendImageEvents(reqImage.name, FileSize(reqImage.name),
                                  outcome))
    /\ sizeFile' = IF outcome = "ok"
                   THEN UpdateImageSizeRequestFile(sizeFile, m_imageType,
                                                   FileSize(reqImage.name))
                   ELSE sizeFile
    /\ reqRet' = IF outcome = "ok" THEN 0 ELSE -1
    /\ reqPc' = "after"
    /\ UNCHANGED << fixed, m_status, m_running, m_shutdown, sessionData,
                    requestSlot, m_imageRequestThreadReady,
                    waitForSizeRequest, reqImage, imageMutex, closeMutex,
                    usbState, appPc, cbPc, mainPc, closePc, closeReturned,
                    history >>

\* "if (ret < 0)": the status the failure branch assigns
SendFailStatus(st) ==
    CASE st \in {"BOOT_START", "BOOT_PROGRESS"} -> "BOOT_FAIL"
      [] st \in {"UPDATE_START", "UPDATE_PROGRESS"} -> "UPDATE_FAIL"
      [] OTHER -> st

\* which branch of the success path the image just sent takes
SentBranch(c, img, finalBoot, finalUpdate, waiting) ==
    CASE finalBoot # "" /\ Contains(img.name, finalBoot) ->
            IF ~c.bootOnly THEN "boot_complete" ELSE "boot_only_final"
      [] finalUpdate # "" /\ Contains(img.name, finalUpdate) ->
            IF img.type \in {"UPDATE_EMMC", "UPDATE_SPI"}
            THEN "update_final_wait" ELSE "update_complete"
      [] waiting /\ img.name = m_sizeRequestImageFilename -> "size_request"
      [] OTHER -> "none"

\* HandleImageRequests after SendImage returned, to the end of the
\* m_imageMutex scope
AfterSendImage ==
    /\ reqPc = "after"
    /\ imageMutex' = "free"
    /\ IF reqRet < 0
       THEN /\ m_status' = SendFailStatus(m_status)
            /\ sink' = SendStatus(sink, SendFailStatus(m_status), 0,
                                  reqImage.name, "Failed to send image")
            /\ reqPc' = "exited"
            /\ UNCHANGED waitForSizeRequest
       ELSE LET b == SentBranch(cfg, reqImage, m_finalBootImage,
                                m_finalUpdateImage, waitForSizeRequest)
            IN /\ m_status' =
                     CASE b = "boot_complete" -> "BOOT_COMPLETE"
                       [] b \in {"update_complete", "size_request"} ->
                             "UPDATE_COMPLETE"
                       [] OTHER -> m_status
               /\ sink' = IF b = "boot_complete"
                          THEN SendStatus(sink, "BOOT_COMPLETE", 100, "",
                                          "Success")
                          ELSE sink
               /\ waitForSizeRequest' =
                     CASE b \in {"boot_only_final", "update_final_wait"} -> TRUE
                       [] b = "size_request" -> FALSE
                       [] OTHER -> waitForSizeRequest
               /\ reqPc' = "wait"
    /\ UNCHANGED << fixed, m_running, m_shutdown, sessionData, requestSlot,
                    m_imageRequestThreadReady, reqImage, reqRet, sizeFile,
                    closeMutex, usbState, appPc, cbPc, mainPc, closePc,
                    closeReturned, history >>

(***************************************************************************)
(* The session: its threads, the device and the callers of Close.          *)
(***************************************************************************)
Next ==
    \/ BootFailed
    \/ BootOpen
    \/ BootPrepare
    \/ BootEnable
    \/ Update
    \/ WfcWait
    \/ WfcWoken
    \/ PostWfc
    \/ AppDone
    \/ Shutdown
    \/ ShutdownReturn
    \/ \E t \in Closers : CloseEnter(t)
    \/ \E t \in Closers : CloseJoinRequestThread(t)
    \/ \E t \in Closers : CloseUsbDevice(t)
    \/ \E r \in DeviceRequests(cfg) : DeviceRequest(r[1], r[2])
    \/ DeviceDisconnect
    \/ CallbackWorkerHead
    \/ CallbackWorkerExit
    \/ CallbackWorkerDispatch
    \/ ImageRequestThreadReady
    \/ RequestWake
    \/ RequestTimeout
    \/ RequestLookup
    \/ \E outcome \in {"ok", "load", "header"} : SendImage(outcome)
    \/ AfterSendImage

Spec == Init /\ [][Next]_vars

(***************************************************************************)
(* SpecQueue: one boot session whose device asks for the miniloader and    *)
(* for the final boot image, and that the main thread lets run to its end; *)
(* SpecQueueFair lets the callback worker run.                             *)
(***************************************************************************)
\* the request markers of the device in SpecQueue
QueueFrames(c) ==
    { << 121, MiniloaderName >>, << 121, BundleFinalBootImage(c) >> }

QueueInit ==
    /\ cfg = CHOOSE c \in Configs : c.bootOnly /\ c.uEnvSupport
    /\ SessionInit
    /\ SendIdle
    /\ UsbIdle
    /\ ManagerInit
    /\ TransportIdle

QueueNext ==
    \/ BootOpen
    \/ BootPrepare
    \/ BootEnableObserved
    \/ WfcWait
    \/ WfcWoken
    \/ PostWfc
    \/ AppDone
    \/ \E t \in Closers : CloseEnter(t)
    \/ \E t \in Closers : CloseJoinRequestThread(t)
    \/ \E t \in Closers : CloseUsbDevice(t)
    \/ \E r \in QueueFrames(cfg) : DeviceRequest(r[1], r[2])
    \/ DeviceDisconnect
    \/ CallbackWorkerHead
    \/ CallbackWorkerExit
    \/ CallbackWorkerDispatch
    \/ ImageRequestThreadReady
    \/ RequestWake
    \/ RequestTimeout
    \/ RequestLookup
    \/ \E outcome \in {"ok", "load", "header"} : SendImage(outcome)
    \/ AfterSendImage

SpecQueue == QueueInit /\ [][QueueNext]_vars

\* the callback worker is a thread of its own: it is scheduled whenever it
\* can take a step
SpecQueueFair ==
    /\ SpecQueue
    /\ WF_vars(CallbackWorkerHead)
    /\ WF_vars(CallbackWorkerDispatch)

\* the steps of AstraDeviceThread, of the serving thread and of a Close call
AppThreadStep ==
    \/ BootOpen
    \/ BootPrepare
    \/ BootEnableObserved
    \/ WfcWait
    \/ WfcWoken
    \/ PostWfc
    \/ AppDone

ServingThreadStep ==
    \/ ImageRequestThreadReady
    \/ RequestWake
    \/ RequestTimeout
    \/ RequestLookup
    \/ \E outcome \in {"ok", "load", "header"} : SendImage(outcome)
    \/ AfterSendImage

SessionCloseStep ==
    \E t \in Closers :
       CloseEnter(t) \/ CloseJoinRequestThread(t) \/ CloseUsbDevice(t)

\* SpecQueue with every thread scheduled whenever it can take a step, and
\* with a device that ends up leaving the bus (it resets once booted)
SpecSessionFair ==
    /\ SpecQueue
    /\ WF_vars(AppThreadStep)
    /\ WF_vars(ServingThreadStep)
    /\ WF_vars(SessionCloseStep)
    /\ WF_vars(CallbackWorkerHead)
    /\ WF_vars(CallbackWorkerDispatch)
    /\ WF_vars(CallbackWorkerExit)
    /\ WF_vars(DeviceDisconnect)

\* the phases that end a boot session
TerminalPhases == {"BOOT_FAIL", "UPDATE_FAIL", "BOOT_COMPLETE"}

\* C25: a session that has entered BootFail, UpdateFail or Complete is closed
\* by its application thread: the thread gets past WaitForCompletion and
\* calls Close() on the session.
C25_TerminalSessionIsClosed ==
    (m_status \in TerminalPhases) ~> (closePc["app"] # "out")

\* USBEventHandler has handled a disconnect event: it alone clears m_running
\* while the session is not shut down
DisconnectDelivered ==
    /\ cbPc # "unborn"
    /\ ~m_running
    /\ ~m_shutdown

\* C26: in a session with uEnv support, once a disconnect event has been
\* delivered to the session WaitForCompletion returns, whether the event
\* came before or after the application thread started to wait.
C26_DisconnectEndsWaitForCompletion ==
    DisconnectDelivered ~> (appPc \in {"post_wfc", "close", "done"})

\* the callback worker writes the phase: HandleInterrupt or USBEventHandler
PhaseWrittenByCallbackWorker ==
    /\ cbPc = "wait"
    /\ cbPc' = "head"
    /\ m_status' # m_status

\* C28: the phase and the image list are accessed under the image-list mutex
\* only, so that no two threads access them at the same time: the callback
\* worker writes the phase only when no other thread holds the mutex.
C28_PhaseUnderImageMutex ==
    [][PhaseWrittenByCallbackWorker => imageMutex = "free"]_vars

\* the serving thread has sent an image: SendImage has submitted its bulk-out
\* transfers through USBDevice::Write
ImageBlocksSubmitted ==
    /\ reqPc = "send"
    /\ reqPc' = "after"
    /\ reqRet' = 0

\* C29: the serving thread holds no mutex when it submits a USB transfer: it
\* does not hold the image-list mutex while SendImage submits the bulk-out
\* transfers of an image.
C29_NoMutexAtSubmit ==
    [][ImageBlocksSubmitted => imageMutex # "req"]_vars

(***************************************************************************)
(* SpecConsole: an SPI update session driven over the USB console, without *)
(* uEnv support: Update() types the flash command at the U-Boot prompt and *)
(* WaitForCompletion waits for the prompt to come back.                    *)
(***************************************************************************)
\* console frames the device sends in one run of SpecConsole
MaxConsoleFrames == 2

\* the sessions of SpecConsole
ConsoleConfigs ==
    [ bootOnly : {FALSE}, uEnvSupport : {FALSE}, bootCommandEmpty : {FALSE},
      ubootConsole : {"USB"}, flashType : {"SPI"},
      runContinuously : {FALSE}, resetWhenComplete : {TRUE} ]

\* the request markers of the device in SpecConsole: the final boot image,
\* the final image of the plan, the size echo
ConsoleRequests(c) ==
    { << 121, BundleFinalBootImage(c) >>, << 121, FlashFinalImage(c) >>,
      << 121, m_sizeRequestImageFilename >> }

\* the console texts of the device: the prompt, and a line that is not
ConsoleTexts == { m_uBootPrompt, "spinit" }

\* SendToConsole -> USBDevice::WriteInterruptData: nothing is written once
\* m_running of the USB device is clear
SendToConsole(out, running, data) ==
    IF running THEN Append(out, data) ELSE out

\* LIBUSB_TRANSFER_COMPLETED on interrupt-in with console text
DeviceConsole(text) ==
    /\ usbRunning
    /\ consoleFrames < MaxConsoleFrames
    /\ m_callbackQueue' = Append(m_callbackQueue,
                            [event |-> "INTERRUPT", tag |-> NoMarker,
                             name |-> text])
    /\ consoleFrames' = consoleFrames + 1
    /\ UNCHANGED << cfg, sendVars, usbVars, hostVars, consoleOut, m_status,
                    m_running,
                    m_shutdown, sessionData, requestSlot,
                    m_imageRequestThreadReady, reqLocals, sizeFile,
                    imageMutex, closeMutex, m_callbackThreadRunning,
                    usbRunning, usbShutdown, appPc, reqPc, cbPc, mainPc,
                    closePc, sink, closeReturned, history >>

\* Update() after WaitForPrompt returned true: the flash command is typed
UpdateSendCommand ==
    /\ appPc = "update_send"
    /\ consoleOut' = SendToConsole(consoleOut, usbRunning, "flash command")
    /\ appPc' = "wfc"
    /\ UNCHANGED << cfg, sendVars, usbVars, hostVars, consoleFrames, m_status,
                    m_running, m_shutdown, sessionData, requestSlot,
                    m_imageRequestThreadReady, reqLocals, sizeFile,
                    imageMutex, closeMutex, usbState, reqPc, cbPc, mainPc,
                    closePc, sink, closeReturned, history >>

\* WaitForCompletion with the USB console: m_console->WaitForPrompt()
WfcPromptWait ==
    /\ appPc = "wfc"
    /\ ~(cfg.uEnvSupport \/ cfg.ubootConsole = "UART")
    /\ cfg.ubootConsole = "USB"
    /\ appPc' = "wfc_prompt"
    /\ UNCHANGED << fixed, m_status, m_running, m_shutdown, sessionData,
                    requestSlot, m_imageRequestThreadReady, reqLocals,
                    sizeFile, imageMutex, closeMutex, usbState, reqPc, cbPc,
                    mainPc, closePc, sink, closeReturned, history >>

\* WaitForCompletion after the prompt: "reset" if m_resetWhenComplete, the
\* success report if the status is UPDATE_COMPLETE
WfcPrompted ==
    /\ appPc = "wfc_prompted"
    /\ consoleOut' = IF cfg.resetWhenComplete
                     THEN SendToConsole(consoleOut, usbRunning, "reset")
                     ELSE consoleOut
    /\ sink' = IF m_status = "UPDATE_COMPLETE"
               THEN SendStatus(sink, m_status, 100, "", "Success")
               ELSE sink
    /\ appPc' = "post_wfc"
    /\ UNCHANGED << cfg, sendVars, usbVars, hostVars, consoleFrames, m_status,
                    m_running, m_shutdown, sessionData, requestSlot,
                    m_imageRequestThreadReady, reqLocals, sizeFile,
                    imageMutex, closeMutex, usbState, reqPc, cbPc, mainPc,
                    closePc, closeReturned, history >>

ConsoleInit ==
    /\ cfg \in ConsoleConfigs
    /\ SessionInit
    /\ SendIdle
    /\ UsbIdle
    /\ ManagerInit
    /\ TransportIdle

ConsoleNext ==
    \/ BootOpen
    \/ BootPrepare
    \/ BootEnable
    \/ Update
    \/ UpdateSendCommand
    \/ WfcPromptWait
    \/ WfcPrompted
    \/ PostWfc
    \/ AppDone
    \/ Shutdown
    \/ ShutdownReturn
    \/ \E t \in Closers : CloseEnter(t)
    \/ \E t \in Closers : CloseJoinRequestThread(t)
    \/ \E t \in Closers : CloseUsbDevice(t)
    \/ \E r \in ConsoleRequests(cfg) : DeviceRequest(r[1], r[2])
    \/ \E text \in ConsoleTexts : DeviceConsole(text)
    \/ DeviceDisconnect
    \/ CallbackWorkerHead
    \/ CallbackWorkerExit
    \/ CallbackWorkerDispatch
    \/ ImageRequestThreadReady
    \/ RequestWake
    \/ RequestTimeout
    \/ RequestLookup
    \/ \E outcome \in {"ok", "load", "header"} : SendImage(outcome)
    \/ AfterSendImage

SpecConsole == ConsoleInit /\ [][ConsoleNext]_vars

\* the steps of AstraDeviceThread in a console session
ConsoleAppStep ==
    \/ BootOpen
    \/ BootPrepare
    \/ BootEnable
    \/ Update
    \/ UpdateSendCommand
    \/ WfcPromptWait
    \/ WfcPrompted
    \/ PostWfc
    \/ AppDone

\* a console session whose device stays on the bus and which nobody shuts
\* down from outside
PromptNext ==
    \/ ConsoleAppStep
    \/ SessionCloseStep
    \/ \E r \in ConsoleRequests(cfg) : DeviceRequest(r[1], r[2])
    \/ \E text \in ConsoleTexts : DeviceConsole(text)
    \/ CallbackWorkerHead
    \/ CallbackWorkerExit
    \/ CallbackWorkerDispatch
    \/ ServingThreadStep

\* every thread of the session is scheduled whenever it can take a step
SpecPromptFair ==
    /\ ConsoleInit
    /\ [][PromptNext]_vars
    /\ WF_vars(ConsoleAppStep)
    /\ WF_vars(SessionCloseStep)
    /\ WF_vars(ServingThreadStep)
    /\ WF_vars(CallbackWorkerHead)
    /\ WF_vars(CallbackWorkerDispatch)
    /\ WF_vars(CallbackWorkerExit)

\* the callback worker is about to hand a fragment ending in the prompt to
\* the console, and Update() has not typed the flash command yet
PromptReceivedBeforeCommand ==
    /\ cbPc = "wait"
    /\ m_callbackQueue # << >>
    /\ Head(m_callbackQueue).event = "INTERRUPT"
    /\ Head(m_callbackQueue).tag = NoMarker
    /\ PromptDetected(Head(m_callbackQueue).name)
    /\ appPc \in {"update", "update_prompt"}

\* C27: in an update session with USB console and no uEnv support, once a
\* fragment ending in the prompt has been received the flash command is
\* written to the console, whether the fragment is processed before or after
\* Update() starts to wait for the prompt.
C27_PromptGetsFlashCommand ==
    PromptReceivedBeforeCommand ~> (consoleOut # << >>)

(***************************************************************************)
(* Properties of the session.                                              *)
(***************************************************************************)
\* the phases the specification calls terminal
TerminalStatus(c) ==
    {"BOOT_FAIL", "UPDATE_FAIL", "UPDATE_COMPLETE"}
        \cup (IF c.bootOnly THEN {"BOOT_COMPLETE"} ELSE {})

\* C1: once the phase is BOOT_FAIL, UPDATE_FAIL or UPDATE_COMPLETE (and
\* BOOT_COMPLETE in a boot-only session) no step of any thread changes it.
C1_TerminalIsFinal ==
    [][(m_status \in TerminalStatus(cfg)) => (m_status' = m_status)]_vars

\* the edges of the phase diagram
ListedEdge(c, from, to) ==
    \/ << from, to >> \in
          { << "ADDED", "OPENED" >>, << "OPENED", "BOOT_START" >>,
            << "BOOT_START", "BOOT_PROGRESS" >>,
            << "BOOT_PROGRESS", "BOOT_COMPLETE" >>,
            << "BOOT_PROGRESS", "BOOT_FAIL" >>,
            << "UPDATE_START", "UPDATE_PROGRESS" >>,
            << "UPDATE_PROGRESS", "UPDATE_COMPLETE" >>,
            << "UPDATE_PROGRESS", "UPDATE_FAIL" >> }
    \/ ~c.bootOnly /\ << from, to >> = << "BOOT_COMPLETE", "UPDATE_START" >>
    \/ from \in {"BOOT_START", "BOOT_PROGRESS"} /\ to = "BOOT_FAIL"
    \/ from \in {"UPDATE_START", "UPDATE_PROGRESS"} /\ to = "UPDATE_FAIL"

\* C2: every change of the phase is a listed edge; in particular no Update*
\* phase is followed by a Boot* phase.
C2_OnlyListedEdges ==
    [][m_status' # m_status => ListedEdge(cfg, m_status, m_status')]_vars

\* the last Device event the sink received (a dummy when there is none)
LastDeviceEvent(s) ==
    LET idx == { i \in 1..Len(s) : s[i].kind = "device" }
    IN IF idx = {} THEN DeviceEvent("ADDED", 0, "", "")
       ELSE s[CHOOSE i \in idx : \A j \in idx : j <= i]

\* a boot-only session with uEnv support and an empty boot command, whose
\* device asked for uEnv.txt only, received it, and then disconnected: the
\* application thread has left WaitForCompletion and no Shutdown was called
BootOnlyUEnvDone ==
    /\ cfg.bootOnly /\ cfg.uEnvSupport /\ cfg.bootCommandEmpty
    /\ received = << [name |-> m_uEnvFilename, tag |-> 121] >>
    /\ \E i \in 1..Len(sink) :
          sink[i] = DeviceEvent("IMAGE_SEND_COMPLETE", 100, m_uEnvFilename, "")
    /\ reqPc \in {"wait", "exited"}
    /\ mainPc = "run"
    /\ appPc = "post_wfc"

\* C3: in that session the phase is BOOT_COMPLETE and the sink's final Device
\* event is (BOOT_COMPLETE, 100, "", "Success").
C3_BootOnlyUEnvSuccess ==
    BootOnlyUEnvDone =>
        /\ m_status = "BOOT_COMPLETE"
        /\ LastDeviceEvent(sink) =
              DeviceEvent("BOOT_COMPLETE", 100, "", "Success")

\* C5: a successful send for a request with tag > 0x79 leaves in 07_IMAGE the
\* size of the image just sent, a successful send for a request with tag
\* <= 0x79 leaves 07_IMAGE unchanged; the tag is that of the request being
\* served, whatever frame arrives during the send.
C5_SizeFileFollowsServedTag ==
    [][(reqPc = "send" /\ reqPc' = "after" /\ reqRet' = 0) =>
          IF served[Len(served)].tag > SizeTagBoundary
          THEN sizeFile' = << FileSize(reqImage.name) >>
          ELSE sizeFile' = sizeFile]_vars

\* C6: the k-th request served is the k-th request received, under the name
\* that request carried.
C6_ServedInArrivalOrder ==
    /\ Len(served) <= Len(received)
    /\ \A k \in 1..Len(served) :
          /\ served[k].req = k
          /\ served[k].name = StripPrefix(received[k].name)

\* C7: once a Close() of the session has returned, the user callback is not
\* invoked again.
C7_NoCallbackAfterClose ==
    [][closeReturned => (sink' = sink)]_vars

\* C10: a lookup miss in BOOT_START/BOOT_PROGRESS moves the phase to
\* BOOT_FAIL, in UPDATE_START/UPDATE_PROGRESS to UPDATE_FAIL, emits the
\* failure event with the image name and "image not found", and ends the
\* serving thread.
C10_LookupMissFails ==
    [][(reqPc = "lookup" /\ reqPc' = "exited") =>
          /\ m_status \in {"BOOT_START", "BOOT_PROGRESS"} =>
                /\ m_status' = "BOOT_FAIL"
                /\ LastDeviceEvent(sink') =
                      DeviceEvent("BOOT_FAIL", 0, m_requestedImageName',
                                  "image not found")
          /\ m_status \in {"UPDATE_START", "UPDATE_PROGRESS"} =>
                /\ m_status' = "UPDATE_FAIL"
                /\ LastDeviceEvent(sink') =
                      DeviceEvent("UPDATE_FAIL", 0, m_requestedImageName',
                                  "image not found")]_vars

\* the 10 s wait of the serving thread ends with no request and the session
\* running, and the thread returns
TimeoutStep ==
    /\ reqPc = "wait" /\ reqPc' = "exited"
    /\ ~m_imageRequestReady /\ m_running

\* C11: a timeout of the 10 s wait ends the serving thread only in
\* BOOT_PROGRESS, and then the phase becomes BOOT_FAIL and the Device event
\* (BOOT_FAIL, 0, "", "Timeout during boot, press RESET while holding
\* USB_BOOT to try again") is emitted; in no other phase does a timeout end
\* the thread.
C11_BootTimeoutFails ==
    [][TimeoutStep =>
          IF m_status = "BOOT_PROGRESS"
          THEN /\ m_status' = "BOOT_FAIL"
               /\ LastDeviceEvent(sink') =
                     DeviceEvent("BOOT_FAIL", 0, "",
                        "Timeout during boot, press RESET while holding USB_BOOT to try again")
          ELSE FALSE]_vars

\* the callback worker hands a disconnect, cancel or transfer-error event to
\* the session
DeviceGoneStep ==
    /\ cbPc = "wait" /\ cbPc' = "head"
    /\ m_callbackQueue # << >>
    /\ Head(m_callbackQueue).event # "INTERRUPT"

\* C12: such an event arriving while the last requested image is
\* gen3_miniloader.bin.usb changes neither the phase nor the sink, and the
\* session keeps running.
C12_MiniloaderDisconnectIgnored ==
    [][(DeviceGoneStep /\ m_requestedImageName = MiniloaderName) =>
          /\ m_status' = m_status
          /\ sink' = sink
          /\ m_running' = m_running]_vars

\* the phases in which a disconnect counts as success
CompletePhases == {"BOOT_COMPLETE", "UPDATE_COMPLETE"}

\* the thread in WaitForCompletion, woken by a disconnect that found the
\* phase Complete, goes through the body of its loop: no failure was
\* reported and Close() was not called
WokenByDisconnectInComplete ==
    /\ appPc = "wfc_woken" /\ appPc' # appPc
    /\ ~m_running /\ ~m_shutdown
    /\ m_status \in CompletePhases
    /\ \A i \in 1..Len(sink) :
          sink[i].status \notin {"BOOT_FAIL", "UPDATE_FAIL", "IMAGE_SEND_FAIL"}

MatchingFail(st) ==
    IF st \in {"UPDATE_START", "UPDATE_PROGRESS"} THEN "UPDATE_FAIL"
    ELSE "BOOT_FAIL"

\* C14: a disconnect, cancel or transfer-error event (outside the miniloader
\* case) delivered in OPENED, BOOT_START or BOOT_PROGRESS moves the phase to
\* BOOT_FAIL, in UPDATE_START or UPDATE_PROGRESS to UPDATE_FAIL, and clears
\* the running flag.
C14_TransportErrorFails ==
    [][(/\ DeviceGoneStep
        /\ m_requestedImageName # MiniloaderName
        /\ m_status \in {"OPENED", "BOOT_START", "BOOT_PROGRESS",
                         "UPDATE_START", "UPDATE_PROGRESS"}) =>
          /\ m_status' = MatchingFail(m_status)
          /\ ~m_running']_vars

\* the final image of the session's flash plan has been sent with success
\* (a boot-only session has no plan)
FinalUpdateImageSent ==
    /\ FlashFinalImage(cfg) # ""
    /\ \E i \in 1..Len(sink) :
          sink[i] = DeviceEvent("IMAGE_SEND_COMPLETE", 100,
                                FlashFinalImage(cfg), "")

\* C15: the phase becomes UPDATE_COMPLETE only when the final-update image
\* has been sent with success and, that image being of category UPDATE_EMMC
\* or UPDATE_SPI, only at the end of a later successful send of 07_IMAGE.
C15_UpdateCompleteOnlyAfterFinal ==
    [][(m_status' = "UPDATE_COMPLETE" /\ m_status # "UPDATE_COMPLETE") =>
          /\ FinalUpdateImageSent
          /\ (\A i \in 1..Len(FlashImages(cfg)) :
                 FlashImages(cfg)[i].name = FlashFinalImage(cfg) =>
                    FlashImages(cfg)[i].type \in {"UPDATE_EMMC", "UPDATE_SPI"})
                => (reqImage.name = m_sizeRequestImageFilename /\ reqRet = 0)]_vars

\* the callback worker hands the "=>" prompt to the session while
\* WaitForCompletion waits for it, the device has booted, the final image of
\* the plan was sent, the serving thread is back at its wait and no device
\* was lost
PromptAfterLastImage ==
    /\ cbPc = "wait"
    /\ cbPc' = "head"
    /\ m_callbackQueue # << >>
    /\ Head(m_callbackQueue).event = "INTERRUPT"
    /\ Head(m_callbackQueue).tag = NoMarker
    /\ PromptDetected(Head(m_callbackQueue).name)
    /\ appPc = "wfc_prompt"
    /\ cfg.ubootConsole = "USB"
    /\ ~cfg.uEnvSupport
    /\ cfg.flashType = "SPI"
    /\ FinalUpdateImageSent
    /\ m_status \in {"UPDATE_START", "UPDATE_PROGRESS", "UPDATE_COMPLETE"}
    /\ reqPc = "wait"
    /\ m_running
    /\ ~m_shutdown

\* the step of WaitForCompletion that follows the return of the prompt
PromptHandled ==
    /\ appPc = "wfc_prompted"
    /\ appPc' = "post_wfc"

\* C16: in an SPI update session over the USB console without uEnv support,
\* when the "=>" prompt reappears after the last image was sent, the phase
\* is UPDATE_COMPLETE, and WaitForCompletion then reports
\* (UPDATE_COMPLETE, 100, "", "Success") for that phase.
C16_PromptCompletesSpiUpdate ==
    /\ [][PromptAfterLastImage => m_status' = "UPDATE_COMPLETE"]_vars
    /\ [][(PromptHandled /\ m_status = "UPDATE_COMPLETE") =>
            LastDeviceEvent(sink') =
              DeviceEvent("UPDATE_COMPLETE", 100, "", "Success")]_vars

\* the request markers among the events of a queue, in order
IsFrame(ev) == ev.event = "INTERRUPT"

FramesOf(q) ==
    LET frames == SelectSeq(q, IsFrame)
    IN [i \in 1..Len(frames) |->
          [name |-> frames[i].name, tag |-> frames[i].tag]]

\* the frames that completed before EnableInterrupts() started the worker
EarlyFrames == FramesOf(queuedAtEnable)

\* the early frames are handed to the session in arrival order, none
\* skipped, and those not handed over yet wait at the front of the queue
EarlyFramesInOrder ==
    LET early == EarlyFrames
        handled == IF Len(received) < Len(early) THEN Len(received)
                   ELSE Len(early)
        waiting == FramesOf(m_callbackQueue)
    IN /\ cbPc = "unborn" =>
            /\ received = << >>
            /\ Len(waiting) = framesSent
       /\ cbPc # "unborn" =>
            /\ SubSeq(received, 1, handled) = SubSeq(early, 1, handled)
            /\ Len(waiting) >= Len(early) - handled
            /\ SubSeq(waiting, 1, Len(early) - handled) =
                 SubSeq(early, handled + 1, Len(early))

\* C18: interrupt-in frames that complete after Open() posted the transfer
\* and before the callback worker is started are all queued, and once
\* EnableInterrupts() has started the worker they are delivered to the
\* session callback in arrival order, none lost or reordered, for as long as
\* the worker is not stopped.
C18_EarlyFramesDeliveredInOrder ==
    /\ []EarlyFramesInOrder
    /\ (cbPc \in {"head", "wait"}) ~>
          (\/ /\ Len(received) >= Len(EarlyFrames)
              /\ SubSeq(received, 1, Len(EarlyFrames)) = EarlyFrames
           \/ ~m_callbackThreadRunning)

\* two different frames completed before the worker was started and both
\* were delivered, the first one first
EarlyFramesDelivered ==
    /\ Len(EarlyFrames) >= 2
    /\ EarlyFrames[1] # EarlyFrames[2]
    /\ Len(received) >= 2
    /\ received[1] = EarlyFrames[1]
    /\ received[2] = EarlyFrames[2]

\* AstraDeviceThread is back from WaitForCompletion
ReturnsFromWaitForCompletion ==
    /\ appPc = "post_wfc"
    /\ appPc' = "close"

\* the step hands a Shutdown manager event to the user sink
ShutdownEmitted ==
    sink' = Append(sink, ManagerEvent("SHUTDOWN",
                                      "Astra Device Manager shutting down"))

\* C19: with continuous == false the manager emits a Shutdown manager event
\* when, and only when, a session returns from WaitForCompletion with phase
\* UPDATE_COMPLETE in update mode or BOOT_COMPLETE in boot mode; with
\* continuous == true a session never causes a Shutdown event.
C19_ShutdownEventOnCompletion ==
    /\ [][ReturnsFromWaitForCompletion =>
            (ShutdownEmitted <=>
               /\ ~cfg.runContinuously
               /\ \/ ~cfg.bootOnly /\ m_status = "UPDATE_COMPLETE"
                  \/ cfg.bootOnly /\ m_status = "BOOT_COMPLETE")]_vars
    /\ [][ShutdownEmitted => ReturnsFromWaitForCompletion]_vars

\* a failure was delivered to the user sink: a Failure manager event, or a
\* BOOT_FAIL or UPDATE_FAIL device event
FailureDelivered ==
    \E i \in 1..Len(sink) :
       \/ sink[i].kind = "manager" /\ sink[i].status = "FAILURE"
       \/ sink[i].kind = "device" /\ sink[i].status \in {"BOOT_FAIL", "UPDATE_FAIL"}

\* AstraDeviceManager::Shutdown returns to main
ShutdownReturns ==
    /\ mainPc = "shutdown"
    /\ mainPc' = "exited"

\* C20: Shutdown() reports failure (exit code -1) and keeps the temp root if
\* and only if a Failure manager event or a BOOT_FAIL or UPDATE_FAIL device
\* event was delivered to the user sink before it; otherwise it reports
\* success and removes the temp root.
C20_ShutdownAggregatesFailures ==
    [][ShutdownReturns =>
         IF FailureDelivered
         THEN exitCode' = << 0 - 1 >> /\ tempRoot' = "present"
         ELSE exitCode' = << 0 >> /\ tempRoot' = "removed"]_vars

(***************************************************************************)
(* SpecSend: AstraDeviceImpl::SendImage over Image::Load and               *)
(* Image::GetDataBlock, byte by byte.                                      *)
(*                                                                         *)
(* File sizes are uintmax_t and m_imageSize is a size_t; such a value is   *)
(* kept as << high, low >>, standing for high * 2^16 + low, so that the    *)
(* conversions to uint32_t and to int act on the value the program has.    *)
(***************************************************************************)
\* largest file size and block capacity of the inputs enumerated in full
MaxFileSize == 4
MaxCapacity == 3

\* static constexpr int m_imageBufferSize = (1 * 1024 * 1024) + 4
m_imageBufferSize == 1048580

WideOf(i) == << i \div 65536, i % 65536 >>

WideAdd(a, k) ==
    LET low == a[2] + k
    IN << a[1] + (low \div 65536), low % 65536 >>

WideLess(a, b) == a[1] < b[1] \/ (a[1] = b[1] /\ a[2] < b[2])

\* a - b as an int, for b <= a < b + 2^31
WideDiff(a, b) == (a[1] - b[1]) * 65536 + (a[2] - b[2])

\* the conversion to uint32_t: "uint32_t size = std::filesystem::file_size()"
Uint32(a) == << a[1] % 65536, a[2] >>

\* the conversion to int: "const int totalTransferSize = GetSize() + 8"
Int32(a) ==
    LET high == a[1] % 65536
    IN IF high >= 32768 THEN (high - 65536) * 65536 + a[2]
       ELSE high * 65536 + a[2]

\* HostToLE and the memcpy into the buffer: the four bytes of a uint32_t,
\* least significant first
HostToLE(a) ==
    << a[2] % 256, a[2] \div 256, a[1] % 256, (a[1] \div 256) % 256 >>

\* the header SendImage builds: memset of 8 bytes, then the size
ImageHeader(size) == HostToLE(Uint32(size)) \o << 0, 0, 0, 0 >>

\* the files and block capacities a send is run on: every small file with
\* every small capacity and with the program's capacity, and the files
\* around 2^31 and 2^32 bytes (2^31 - 9, 2^31 - 8, 2^32 - 1, 2^32,
\* 2^32 + 2) with the program's capacity or blocks of 2^30
SendInputs ==
    { [size |-> WideOf(n), capacity |-> c] :
          n \in 0..MaxFileSize, c \in (1..MaxCapacity) \cup {m_imageBufferSize} }
    \cup { [size |-> << 32767, 65527 >>, capacity |-> 1073741824],
           [size |-> << 32767, 65528 >>, capacity |-> m_imageBufferSize],
           [size |-> << 65535, 65535 >>, capacity |-> m_imageBufferSize],
           [size |-> << 65536, 0 >>, capacity |-> m_imageBufferSize],
           [size |-> << 65536, 2 >>, capacity |-> m_imageBufferSize] }

\* transfer->actual_length of a completed bulk-out transfer of len bytes:
\* all of them, one less, or none
ActualLengths(len) == {len} \cup (IF len > 0 THEN {len - 1, 0} ELSE {})

\* the session process is not running
SessionIdle ==
    /\ cfg = CHOOSE c \in Configs : c.bootOnly /\ c.uEnvSupport
    /\ SessionInit

sessionCore ==
    << cfg, m_status, m_running, m_shutdown, sessionData, requestSlot,
       m_imageRequestThreadReady, reqLocals, sizeFile, imageMutex,
       closeMutex, usbState, appPc, reqPc, cbPc, mainPc, closePc, sink,
       closeReturned, history, usbVars, consoleVars >>

sessionVars == << sessionCore, hostVars >>

SendInit ==
    /\ SessionIdle
    /\ UsbIdle
    /\ ManagerInit
    /\ TransportIdle
    /\ \E input \in SendInputs :
          /\ fileSize = input.size
          /\ blockCapacity = input.capacity
    /\ sendPc = "load"
    /\ m_imageSize = << 0, 0 >>
    /\ filePos = << 0, 0 >>
    /\ totalTransferSize = 0
    /\ totalTransferred = 0
    /\ dataBlockSize = 0
    /\ wire = << >>
    /\ sendRet = 0

\* Image::Load on an existing file, and SendImage up to the first Write
SendImageLoad ==
    /\ sendPc = "load"
    /\ m_imageSize' = Uint32(fileSize)
    /\ filePos' = << 0, 0 >>
    /\ totalTransferSize' = Int32(WideAdd(Uint32(fileSize), imageHeaderSize))
    /\ sendPc' = "header"
    /\ UNCHANGED << sessionVars, fileSize, blockCapacity, totalTransferred,
                    dataBlockSize, wire, sendRet >>

\* a segment of the bulk-out stream: header bytes, or len bytes of the file
\* from offset from
HeaderSegment(bytes) ==
    [kind |-> "header", bytes |-> bytes, from |-> << 0, 0 >>, len |-> Len(bytes)]
FileSegment(from, len) ==
    [kind |-> "file", bytes |-> << >>, from |-> from, len |-> len]

\* "ret = m_usbDevice->Write(m_imageBuffer, imageHeaderSize, &transferred)"
SendImageHeader ==
    /\ sendPc = "header"
    /\ \/ /\ sendRet' = -1
          /\ sendPc' = "done"
          /\ UNCHANGED << wire, totalTransferred >>
       \/ \E actual \in ActualLengths(imageHeaderSize) :
             /\ wire' = IF actual > 0
                        THEN Append(wire, HeaderSegment(
                                 SubSeq(ImageHeader(m_imageSize), 1, actual)))
                        ELSE wire
             /\ totalTransferred' = totalTransferred + actual
             /\ sendPc' = "loop"
             /\ UNCHANGED sendRet
    /\ UNCHANGED << sessionVars, fileSize, m_imageSize, filePos,
                    blockCapacity, totalTransferSize, dataBlockSize >>

\* Image::GetDataBlock(data, size): the bytes it reads from position pos
GetDataBlock(imageSize, pos, size) ==
    LET first == IF WideLess(imageSize, WideOf(size))
                 THEN Int32(imageSize) ELSE size
    IN IF WideLess(imageSize, WideAdd(pos, first))
       THEN WideDiff(imageSize, pos)
       ELSE first

\* "while (totalTransferred < totalTransferSize)": the next block is read,
\* or the loop ends and the totals are compared
SendImageLoop ==
    /\ sendPc = "loop"
    /\ IF totalTransferred < totalTransferSize
       THEN /\ dataBlockSize' = GetDataBlock(m_imageSize, filePos,
                                             blockCapacity)
            /\ filePos' = WideAdd(filePos, dataBlockSize')
            /\ sendPc' = "write"
            /\ UNCHANGED sendRet
       ELSE /\ sendRet' = IF totalTransferred # totalTransferSize
                          THEN -1 ELSE 0
            /\ sendPc' = "done"
            /\ UNCHANGED << dataBlockSize, filePos >>
    /\ UNCHANGED << sessionVars, fileSize, m_imageSize, blockCapacity,
                    totalTransferSize, totalTransferred, wire >>

\* "ret = m_usbDevice->Write(m_imageBuffer, dataBlockSize, &transferred)":
\* the buffer holds the block read last
SendImageWrite ==
    /\ sendPc = "write"
    /\ \/ /\ sendRet' = -1
          /\ sendPc' = "done"
          /\ UNCHANGED << wire, totalTransferred >>
       \/ \E actual \in ActualLengths(dataBlockSize) :
             /\ wire' = IF actual > 0
                        THEN Append(wire,
                                FileSegment(WideAdd(filePos, 0 - dataBlockSize),
                                            actual))
                        ELSE wire
             /\ totalTransferred' = totalTransferred + actual
             /\ sendPc' = "loop"
             /\ UNCHANGED sendRet
    /\ UNCHANGED << sessionVars, fileSize, m_imageSize, filePos,
                    blockCapacity, totalTransferSize, dataBlockSize >>

SendNext ==
    \/ SendImageLoad
    \/ SendImageHeader
    \/ SendImageLoop
    \/ SendImageWrite

SpecSend == SendInit /\ [][SendNext]_vars

(***************************************************************************)
(* Properties of a send.                                                   *)
(***************************************************************************)
\* byte i (from 0) of n written as a little-endian 32-bit number
LittleEndianByte(n, i) ==
    CASE i = 0 -> n[2] % 256
      [] i = 1 -> (n[2] \div 256) % 256
      [] i = 2 -> n[1] % 256
      [] OTHER -> (n[1] \div 256) % 256

\* w is the framed image of a file of n bytes: the 8-byte header (n as a
\* little-endian u32, four zero bytes), then the file's bytes from offset 0
\* to n, in order, no byte skipped, repeated or added
FramedImage(w, n) ==
    /\ n[1] < 65536
    /\ Len(w) >= 1
    /\ w[1].kind = "header"
    /\ w[1].bytes = [i \in 1..8 |->
                        IF i <= 4 THEN LittleEndianByte(n, i - 1) ELSE 0]
    /\ \A k \in 2..Len(w) :
          /\ w[k].kind = "file"
          /\ w[k].from = IF k = 2 THEN << 0, 0 >>
                         ELSE WideAdd(w[k - 1].from, w[k - 1].len)
    /\ n = IF Len(w) = 1 THEN << 0, 0 >>
           ELSE WideAdd(w[Len(w)].from, w[Len(w)].len)

\* C4: a send that returns success has written the 8-byte header followed
\* by exactly the file's bytes, whatever the file's size and the block
\* capacity.
C4_SuccessfulSendIsFramed ==
    (sendPc = "done" /\ sendRet = 0) => FramedImage(wire, fileSize)

\* the same for the files of fewer than 2^31 - 8 bytes, whose size plus the
\* header fits an int
SendFramedBelowIntMax ==
    (sendPc = "done" /\ sendRet = 0 /\ WideLess(fileSize, << 32767, 65528 >>))
        => FramedImage(wire, fileSize)

\* a send of several blocks has succeeded
SendOfSeveralBlocksDone ==
    sendPc = "done" /\ sendRet = 0 /\ Len(wire) >= 3

(***************************************************************************)
(* SpecUsb: USBDevice once Boot() has returned: Write on the serving       *)
(* thread, HandleTransfer on the libusb event thread, the callback worker, *)
(* and Close called by the application thread, by the main thread and by   *)
(* the destructors.                                                        *)
(***************************************************************************)
\* Write calls of one run, and transfers that end with a stall
MaxWrites == 2
MaxStalls == 1

\* what Write, HandleTransfer and Close leave alone
usbUntouched ==
    << cfg, sendVars, m_status, m_finalBootImage, m_finalUpdateImage,
       requestSlot, m_imageRequestThreadReady, reqLocals, sizeFile,
       imageMutex, mainPc, closePc, sink, received, served, reqServing,
       queuedAtEnable, consoleVars, hostVars >>

\* Open(): the handle opened, the three transfers allocated, m_running set
\* and the interrupt-in transfer submitted.  Boot(): the image list,
\* m_running, the serving thread (here inside SendImage), EnableInterrupts.
UsbInit ==
    /\ cfg = CHOOSE c \in Configs : c.bootOnly /\ c.uEnvSupport
    /\ ManagerInit
    /\ TransportIdle
    /\ m_status = "BOOT_PROGRESS"
    /\ m_running = TRUE
    /\ m_shutdown = FALSE
    /\ m_images = BootImageList(cfg)
    /\ m_finalBootImage = BootFinalImage(cfg, BundleFinalBootImage(cfg))
    /\ m_finalUpdateImage = ""
    /\ m_imageRequestReady = FALSE
    /\ m_imageRequestThreadReady = TRUE
    /\ m_imageType = SizeTagBoundary
    /\ m_requestedImageName = BundleFinalBootImage(cfg)
    /\ waitForSizeRequest = FALSE
    /\ reqImage = NoImage
    /\ reqRet = 0
    /\ sizeFile = << >>
    /\ imageMutex = "free"
    /\ closeMutex = "free"
    /\ m_callbackQueue = << >>
    /\ m_callbackThreadRunning = TRUE
    /\ usbRunning = TRUE
    /\ usbShutdown = FALSE
    /\ appPc = "wfc_wait"
    /\ reqPc = "send"
    /\ cbPc = "head"
    /\ mainPc = "run"
    /\ closePc = [t \in Closers |-> "out"]
    /\ sink = << >>
    /\ closeReturned = FALSE
    /\ consoleOut = << >>
    /\ consoleFrames = 0
    /\ received = << >>
    /\ served = << >>
    /\ reqServing = 0
    /\ queuedAtEnable = << >>
    /\ framesSent = 0
    /\ SendIdle
    /\ xfer = [x \in XferNames |-> IF x = "in" THEN "inflight" ELSE "idle"]
    /\ libusbCalls = [freed |-> [x \in XferNames |-> 0], released |-> 0,
                      closed |-> 0, unref |-> 0]
    /\ usbCloseMutex = "free"
    /\ m_writeComplete = FALSE
    /\ writePc = "idle"
    /\ writesDone = 0
    /\ usbClosePc = [c \in UsbClosers |-> "out"]
    /\ m_handle = "open"
    /\ stalls = 0
    /\ bulkRefilled = FALSE
    /\ submits = 0

\* submissions one Write call of the model makes
MaxSubmits == 3

\* Write(): "if (!m_running.load()) return -1", libusb_fill_bulk_transfer,
\* then the loop around libusb_submit_transfer.  LIBUSB_ERROR_PIPE with the
\* halt cleared goes round the loop again ("continue"); any other submit
\* error returns -1 (NO_DEVICE clears m_running); SendImage then fails and
\* the serving thread leaves its loop.
WriteSubmit(outcome) ==
    /\ writePc \in {"idle", "retry"}
    /\ writePc = "idle" => writesDone < MaxWrites
    /\ IF writePc = "idle" /\ ~usbRunning
       THEN /\ outcome = "error"
            /\ writePc' = "exited"
            /\ reqPc' = "exited"
            /\ UNCHANGED << xfer, usbRunning, bulkRefilled, submits >>
       ELSE /\ bulkRefilled' = (bulkRefilled \/ xfer["bulk"] = "inflight")
            /\ submits' = IF writePc = "idle" THEN 1 ELSE submits + 1
            /\ CASE outcome = "submitted" ->
                      /\ xfer' = [xfer EXCEPT !["bulk"] = "inflight"]
                      /\ writePc' = "wait"
                      /\ UNCHANGED << usbRunning, reqPc >>
                 [] outcome = "no_device" ->
                      /\ usbRunning' = FALSE
                      /\ writePc' = "exited"
                      /\ reqPc' = "exited"
                      /\ UNCHANGED xfer
                 [] outcome = "pipe_cleared" ->
                      /\ submits' < MaxSubmits
                      /\ writePc' = "retry"
                      /\ UNCHANGED << xfer, usbRunning, reqPc >>
                 [] OTHER ->
                      /\ writePc' = "exited"
                      /\ reqPc' = "exited"
                      /\ UNCHANGED << xfer, usbRunning >>
    /\ UNCHANGED << usbUntouched, m_running, m_shutdown, m_images,
                    closeMutex, m_callbackQueue, m_callbackThreadRunning,
                    usbShutdown, appPc, cbPc, closeReturned, framesSent,
                    libusbCalls, usbCloseMutex, m_writeComplete, writesDone,
                    usbClosePc, m_handle, stalls >>

\* a wait that does not look at the flag
WriteNeverWaits(flag) == TRUE

\* the predicate of m_writeCompleteCV.wait: Write goes on once the flag is set
WriteCompleted(flag) == flag

\* Write() returns 0: the predicate found m_writeComplete and reset it
WriteReturn ==
    /\ writePc = "wait"
    /\ WriteCompleted(m_writeComplete)
    /\ m_writeComplete' = FALSE
    /\ writesDone' = writesDone + 1
    /\ writePc' = "idle"
    /\ UNCHANGED << usbUntouched, m_running, m_shutdown, m_images,
                    closeMutex, usbState, appPc, reqPc, cbPc, closeReturned,
                    framesSent, xfer, libusbCalls, usbCloseMutex, usbClosePc,
                    m_handle, stalls, bulkRefilled,
                    submits >>

\* between two Write calls the serving thread leaves SendImage and its loop
\* (the image is sent, or m_running was cleared)
ServingThreadEnds ==
    /\ writePc = "idle"
    /\ writePc' = "exited"
    /\ reqPc' = "exited"
    /\ UNCHANGED << usbUntouched, m_running, m_shutdown, m_images,
                    closeMutex, usbState, appPc, cbPc, closeReturned,
                    framesSent, xfer, libusbCalls, usbCloseMutex,
                    m_writeComplete, writesDone, usbClosePc, m_handle,
                    stalls, bulkRefilled,
                    submits >>

\* HandleTransfer on transfer x ending with status; halt is the outcome of
\* libusb_clear_halt after a stall, submitted that of the resubmission, and
\* frame the request marker of a completed interrupt-in transfer.
HandleTransfer(x, status, halt, submitted, frame) ==
    LET running == /\ usbRunning
                   /\ status \notin {"NO_DEVICE", "CANCELLED"}
                   /\ ~(status = "STALL" /\ halt = "no_device")
        resubmit == \/ status = "COMPLETED" /\ x # "bulk"
                    \/ status = "STALL" /\ halt = "ok"
        queued ==
            CASE status = "COMPLETED" ->
                    IF x = "in"
                    THEN QueueEvent(m_callbackQueue, "INTERRUPT",
                                    frame[1], frame[2])
                    ELSE m_callbackQueue
              [] status = "NO_DEVICE" ->
                    QueueEvent(m_callbackQueue, "NO_DEVICE", 0, "")
              [] status = "CANCELLED" ->
                    QueueEvent(m_callbackQueue, "TRANSFER_CANCELED", 0, "")
              [] status = "STALL" ->
                    IF halt = "no_device"
                    THEN QueueEvent(m_callbackQueue, "NO_DEVICE", 0, "")
                    ELSE m_callbackQueue
              [] OTHER ->
                    QueueEvent(m_callbackQueue, "TRANSFER_ERROR", 0, "")
    IN /\ xfer[x] = "inflight"
       /\ (status = "COMPLETED" /\ x = "in") => framesSent < MaxFrames
       /\ status = "STALL" => stalls < MaxStalls
       /\ m_writeComplete' =
             (m_writeComplete \/ (status = "COMPLETED" /\ x = "bulk"))
       /\ usbRunning' = running
       /\ m_callbackQueue' =
             IF resubmit /\ running /\ ~submitted
             THEN QueueEvent(queued, "TRANSFER_ERROR", 0, "")
             ELSE queued
       /\ xfer' = [xfer EXCEPT ![x] =
                      IF resubmit /\ running /\ submitted THEN "inflight"
                      ELSE "idle"]
       /\ framesSent' = IF status = "COMPLETED" /\ x = "in"
                        THEN framesSent + 1 ELSE framesSent
       /\ stalls' = IF status = "STALL" THEN stalls + 1 ELSE stalls
       /\ UNCHANGED << usbUntouched, m_running, m_shutdown, m_images,
                       closeMutex, m_callbackThreadRunning, usbShutdown,
                       appPc, reqPc, cbPc, closeReturned, libusbCalls,
                       usbCloseMutex, writePc, writesDone, usbClosePc,
                       m_handle, bulkRefilled,
                    submits >>

(***************************************************************************)
(* Close in SpecUsb, by caller c: AstraDeviceImpl::Close from the          *)
(* application thread, from the main thread and from ~AstraDeviceImpl,     *)
(* then USBDevice::Close from inside it and from ~USBDevice.               *)
(***************************************************************************)
\* a Close that tears down whatever m_shutdown says
EveryCloseTearsDown(shutdown) == TRUE

\* "if (!m_shutdown.exchange(true))" of USBDevice::Close
FirstClose(shutdown) == ~shutdown

\* a Close call of c returns: the lock_guard of AstraDeviceImpl::Close is
\* released when c holds it; the destructor goes on to ~USBDevice
CloseReturns(c, atSession) ==
    /\ closeMutex' = IF closeMutex = c THEN "free" ELSE closeMutex
    /\ usbClosePc' = [usbClosePc EXCEPT ![c] =
                         IF atSession /\ c = "dtor" THEN "usb_head"
                         ELSE "done"]
    /\ closeReturned' = TRUE

\* AstraDeviceImpl::Close: "lock_guard(m_closeMutex);
\* if (!m_shutdown.exchange(true))", m_running cleared, both condition
\* variables notified
SessionCloseEnter(c) ==
    /\ usbClosePc[c] = "out"
    /\ closeMutex = "free"
    /\ IF m_shutdown
       THEN /\ CloseReturns(c, TRUE)
            /\ UNCHANGED << m_shutdown, m_running, appPc >>
       ELSE /\ m_shutdown' = TRUE
            /\ m_running' = FALSE
            /\ appPc' = NotifyDeviceEvent(appPc)
            /\ closeMutex' = c
            /\ usbClosePc' = [usbClosePc EXCEPT ![c] = "join_req"]
            /\ UNCHANGED closeReturned
    /\ UNCHANGED << usbUntouched, m_images, usbState, reqPc, cbPc,
                    framesSent, xfer, libusbCalls, usbCloseMutex,
                    m_writeComplete, writePc, writesDone, m_handle, stalls,
                    bulkRefilled,
                    submits >>

\* "m_imageRequestThread.join()", "m_images.clear()", "m_usbDevice->Close()"
SessionCloseJoin(c) ==
    /\ usbClosePc[c] = "join_req"
    /\ reqPc = "exited"
    /\ m_images' = << >>
    /\ usbClosePc' = [usbClosePc EXCEPT ![c] = "usb_head"]
    /\ UNCHANGED << usbUntouched, m_running, m_shutdown, closeMutex,
                    usbState, appPc, reqPc, cbPc, closeReturned, framesSent,
                    xfer, libusbCalls, usbCloseMutex, m_writeComplete,
                    writePc, writesDone, m_handle, stalls, bulkRefilled,
                    submits >>

\* USBDevice::Close: "if (m_callbackThreadRunning.exchange(false))" joins the
\* callback worker
UsbCloseHead(c) ==
    /\ usbClosePc[c] = "usb_head"
    /\ m_callbackThreadRunning' = FALSE
    /\ usbClosePc' = [usbClosePc EXCEPT ![c] =
                         IF m_callbackThreadRunning THEN "join_cb"
                         ELSE "lock"]
    /\ UNCHANGED << usbUntouched, m_running, m_shutdown, m_images,
                    closeMutex, m_callbackQueue, usbRunning, usbShutdown,
                    appPc, reqPc, cbPc, closeReturned, framesSent, xfer,
                    libusbCalls, usbCloseMutex, m_writeComplete, writePc,
                    writesDone, m_handle, stalls, bulkRefilled,
                    submits >>

\* a join that does not wait for the thread
JoinedAtOnce(pc) == TRUE

\* m_callbackThread.join() returns once CallbackWorkerThread has returned
CallbackThreadJoined(pc) == pc = "exited"

\* "m_callbackThread.join()"
UsbCloseJoin(c) ==
    /\ usbClosePc[c] = "join_cb"
    /\ CallbackThreadJoined(cbPc)
    /\ usbClosePc' = [usbClosePc EXCEPT ![c] = "lock"]
    /\ UNCHANGED << usbUntouched, m_running, m_shutdown, m_images,
                    closeMutex, usbState, appPc, reqPc, cbPc, closeReturned,
                    framesSent, xfer, libusbCalls, usbCloseMutex,
                    m_writeComplete, writePc, writesDone, m_handle, stalls,
                    bulkRefilled,
                    submits >>

\* "lock_guard(m_closeMutex); if (!m_shutdown.exchange(true))": the first
\* caller clears m_running and cancels the transfers, which then end on the
\* event thread; a later caller returns
UsbCloseCancel(c) ==
    /\ usbClosePc[c] = "lock"
    /\ usbCloseMutex = "free"
    /\ IF FirstClose(usbShutdown)
       THEN /\ usbShutdown' = TRUE
            /\ usbRunning' = FALSE
            /\ usbCloseMutex' = c
            /\ usbClosePc' = [usbClosePc EXCEPT ![c] = "wait_cancel"]
            /\ UNCHANGED << closeMutex, closeReturned >>
       ELSE /\ CloseReturns(c, FALSE)
            /\ UNCHANGED << usbShutdown, usbRunning, usbCloseMutex >>
    /\ UNCHANGED << usbUntouched, m_running, m_shutdown, m_images,
                    m_callbackQueue, m_callbackThreadRunning, appPc, reqPc,
                    cbPc, framesSent, xfer, libusbCalls, m_writeComplete,
                    writePc, writesDone, m_handle, stalls, bulkRefilled,
                    submits >>

\* the libusb calls of the teardown: libusb_free_transfer on each transfer
\* pointer that is not null, libusb_release_interface and libusb_close
\* "if (m_handle)", libusb_unref_device
TeardownCalls(calls, xf, handle) ==
    [freed |-> [x \in XferNames |->
                   IF xf[x] # "freed" THEN calls.freed[x] + 1
                   ELSE calls.freed[x]],
     released |-> IF handle # "null" THEN calls.released + 1
                  ELSE calls.released,
     closed |-> IF handle # "null" THEN calls.closed + 1 ELSE calls.closed,
     unref |-> calls.unref + 1]

\* the wait for the cancellations is over (all ended, or 500 ms passed): the
\* transfers are freed and their pointers nulled, the handle closed and
\* nulled, the device reference dropped; Close returns
UsbCloseFree(c) ==
    /\ usbClosePc[c] = "wait_cancel"
    /\ libusbCalls' = TeardownCalls(libusbCalls, xfer, m_handle)
    /\ xfer' = [x \in XferNames |-> "freed"]
    /\ m_handle' = "null"
    /\ usbCloseMutex' = "free"
    /\ CloseReturns(c, FALSE)
    /\ UNCHANGED << usbUntouched, m_running, m_shutdown, m_images, usbState,
                    appPc, reqPc, cbPc, framesSent, m_writeComplete, writePc,
                    writesDone, stalls, bulkRefilled,
                    submits >>

\* what libusb_submit_transfer in Write returns: 0, LIBUSB_ERROR_NO_DEVICE,
\* LIBUSB_ERROR_PIPE with libusb_clear_halt succeeding or failing, another
\* error
SubmitOutcomes ==
    {"submitted", "no_device", "pipe_cleared", "pipe_halted", "error"}

\* the ways a transfer ends, and the outcomes of libusb_clear_halt
TransferStatus ==
    {"COMPLETED", "TIMED_OUT", "NO_DEVICE", "CANCELLED", "STALL", "ERROR"}
HaltOutcome == {"ok", "no_device", "error"}

\* the frame the device sends on interrupt-in: the request for the final
\* boot image
UsbFrames(c) == {<< SizeTagBoundary, BundleFinalBootImage(c) >>}

UsbNext ==
    \/ \E outcome \in SubmitOutcomes : WriteSubmit(outcome)
    \/ WriteReturn
    \/ ServingThreadEnds
    \/ \E x \in XferNames, status \in TransferStatus, halt \in HaltOutcome,
          submitted \in BOOLEAN, frame \in UsbFrames(cfg) :
          HandleTransfer(x, status, halt, submitted, frame)
    \/ CallbackWorkerHead
    \/ CallbackWorkerDispatch
    \/ CallbackWorkerExit
    \/ \E c \in UsbClosers :
          \/ SessionCloseEnter(c)
          \/ SessionCloseJoin(c)
          \/ UsbCloseHead(c)
          \/ UsbCloseJoin(c)
          \/ UsbCloseCancel(c)
          \/ UsbCloseFree(c)

SpecUsb == UsbInit /\ [][UsbNext]_vars

\* the transfer x in flight ends: libusb calls HandleTransfer on the event
\* thread (the bulk transfer has a timeout of 1000 ms)
TransferEnds(x) ==
    \E status \in TransferStatus, halt \in HaltOutcome, submitted \in BOOLEAN,
       frame \in UsbFrames(cfg) :
       HandleTransfer(x, status, halt, submitted, frame)

\* a step of a Close call of c
CloseStep(c) ==
    \/ SessionCloseEnter(c)
    \/ SessionCloseJoin(c)
    \/ UsbCloseHead(c)
    \/ UsbCloseJoin(c)
    \/ UsbCloseCancel(c)
    \/ UsbCloseFree(c)

\* SpecUsb with every thread scheduled: a thread that can take its next
\* step takes it, and a bulk transfer in flight ends
SpecUsbFair ==
    /\ SpecUsb
    /\ WF_vars(\E outcome \in SubmitOutcomes : WriteSubmit(outcome))
    /\ WF_vars(WriteReturn)
    /\ WF_vars(ServingThreadEnds)
    /\ WF_vars(TransferEnds("bulk"))
    /\ WF_vars(CallbackWorkerHead)
    /\ WF_vars(CallbackWorkerDispatch)
    /\ WF_vars(CallbackWorkerExit)
    /\ \A c \in UsbClosers : WF_vars(CloseStep(c))

(***************************************************************************)
(* Properties of Close and Write, checked under SpecUsb.                   *)
(***************************************************************************)
\* every libusb teardown call was made at most n times and, when all is set,
\* exactly n times
TeardownCallsAre(n, all) ==
    /\ \A x \in XferNames :
          /\ libusbCalls.freed[x] <= n
          /\ all => libusbCalls.freed[x] = n
    /\ libusbCalls.released <= n /\ (all => libusbCalls.released = n)
    /\ libusbCalls.closed <= n /\ (all => libusbCalls.closed = n)
    /\ libusbCalls.unref <= n /\ (all => libusbCalls.unref = n)

\* what a teardown changes
teardownState ==
    << m_running, m_shutdown, m_images, usbState, xfer, libusbCalls,
       m_handle, m_writeComplete, m_status, sink >>

C9_BulkWritesNeverOverlap ==
    /\ ~bulkRefilled
    /\ xfer["bulk"] = "inflight" => writePc = "wait"

\* two Write calls have returned, one after the other, and a transfer was
\* resubmitted after a stall
TwoWritesReturned ==
    /\ writesDone >= 2
    /\ stalls >= 1
    /\ ~bulkRefilled

\* C22: a Write call whose bulk transfer was submitted returns: the serving
\* thread does not stay in the wait of Write, whatever the status the
\* transfer ends with.
C22_SubmittedWriteReturns == (writePc = "wait") ~> (writePc # "wait")

\* C23: every Close call on the session returns, in every interleaving with
\* the serving thread, the callback worker and the event thread: a caller
\* that has entered Close gets to the end of it.
C23_CloseReturns ==
    \A c \in UsbClosers : (usbClosePc[c] # "out") ~> (usbClosePc[c] = "done")

\* the step of the session's Close of c in which the serving thread is joined
JoinsServingThread(c) ==
    usbClosePc[c] = "join_req" /\ usbClosePc'[c] = "usb_head"

\* C24: the session's Close clears m_running and notifies before it joins,
\* cancels the USB transfers before it joins a thread, and joins the callback
\* worker (spawned second) before the serving thread (spawned first): when
\* the serving thread is joined, m_running is clear, the transfers have been
\* cancelled and the callback worker has ended.
C24_CloseStepsInOrder ==
    [][\A c \in UsbClosers :
          JoinsServingThread(c) =>
              /\ ~m_running
              /\ usbShutdown
              /\ cbPc = "exited"]_vars

\* the step of USBDevice::Close of c that frees the transfers and the
\* interrupt buffers
FreesTransfers(c) ==
    usbClosePc[c] = "wait_cancel" /\ usbClosePc'[c] # "wait_cancel"

\* C30: USBDevice::Close frees a transfer it has cancelled in flight only
\* after the event thread has run HandleTransfer for it, so that no callback
\* runs on a freed transfer or buffer: when the transfers are freed none of
\* them is in flight.
C30_FreedAfterCallback ==
    [][\A c \in UsbClosers :
          FreesTransfers(c) => \A x \in XferNames : xfer[x] # "inflight"]_vars

\* the callback worker calls the session's USB event callback
CallbackRuns == cbPc = "wait" /\ cbPc' = "head"

\* a step of USBDevice::Close of c that cancels or frees the transfers,
\* releases the interface and closes the handle
TearsDown(c) ==
    \/ usbClosePc[c] = "lock" /\ usbClosePc'[c] = "wait_cancel"
    \/ FreesTransfers(c)

C32_AtMostTwoSubmissions == submits <= 2

(***************************************************************************)
(* SpecTransport: USBTransport and WinUSBTransport looking at the devices  *)
(* of the bus.  Strings are sequences of characters, so that the split of  *)
(* the filter string and the prefix test act on what the program has.      *)
(***************************************************************************)
\* devices one run of SpecTransport looks at
MaxArrivals == 2
\* the length of the filter string Init() is given
MaxFilterLen == 3

\* the characters of the filter strings of the model
FilterChars == {"1", "2", "-", ","}

FilterStrings ==
    UNION { [1..n -> FilterChars] : n \in 0..MaxFilterLen }

\* the devices of the bus: the bus number and the chain of port numbers
BusDevices ==
    [bus : {1}, ports : {<< >>, << 1 >>, << 2 >>, << 12 >>, << 1, 2 >>}]

\* operator<< of an int on a stringstream
DecimalDigit(n) ==
    CASE n = 0 -> "0" [] n = 1 -> "1" [] n = 2 -> "2" [] n = 3 -> "3"
      [] n = 4 -> "4" [] n = 5 -> "5" [] n = 6 -> "6" [] n = 7 -> "7"
      [] n = 8 -> "8" [] OTHER -> "9"

RECURSIVE Decimal(_)
Decimal(n) ==
    IF n < 10 THEN << DecimalDigit(n) >>
    ELSE Decimal(n \div 10) \o << DecimalDigit(n % 10) >>

\* ConstructUSBPath: "bus-port[.port...]"
RECURSIVE DottedPorts(_)
DottedPorts(ports) ==
    IF ports = << >> THEN << >>
    ELSE << "." >> \o Decimal(Head(ports)) \o DottedPorts(Tail(ports))

ConstructUSBPath(dev) ==
    Decimal(dev.bus) \o << "-" >> \o
    (IF Len(dev.ports) > 0
     THEN Decimal(dev.ports[1]) \o DottedPorts(Tail(dev.ports))
     ELSE << >>)

\* std::string::find(',', start): the first index at or after start that
\* holds a comma, 0 when there is none (indices from 1)
FindComma(str, start) ==
    IF \E i \in start..Len(str) : str[i] = ","
    THEN CHOOSE i \in start..Len(str) :
            /\ str[i] = ","
            /\ \A j \in start..(i - 1) : str[j] # ","
    ELSE 0

\* ParseFilterPortString: the loop over the commas, from index start with
\* the list built so far
RECURSIVE ParseFrom(_, _, _)
ParseFrom(str, start, filterList) ==
    LET end == FindComma(str, start)
    IN IF end # 0
       THEN LET port == SubSeq(str, start, end - 1)
            IN ParseFrom(str, end + 1,
                         IF port # << >> THEN Append(filterList, port)
                         ELSE filterList)
       ELSE LET lastPort == SubSeq(str, start, Len(str))
            IN IF lastPort # << >> THEN Append(filterList, lastPort)
               ELSE filterList

ParseFilterPortString(str) ==
    IF str # << >> THEN ParseFrom(str, 1, << >>) ELSE << >>

\* "devicePath.rfind(port, 0) == 0": port occurs in devicePath at index 0
RfindAtZero(devicePath, port) ==
    /\ Len(port) <= Len(devicePath)
    /\ \A i \in 1..Len(port) : devicePath[i] = port[i]

\* a filter that lets every path through
AnyPortValid(ports, devicePath) == TRUE

\* USBTransport::IsValidPort
IsValidPort(ports, devicePath) ==
    \/ ports = << >>
    \/ \E i \in 1..Len(ports) : RfindAtZero(devicePath, ports[i])

\* USBTransport::Init / WinUSBTransport::Init: the filter string is parsed;
\* no device has been looked at
TransportInit ==
    /\ cfg = CHOOSE c \in Configs : c.bootOnly /\ c.uEnvSupport
    /\ SessionInit
    /\ SendIdle
    /\ UsbIdle
    /\ ManagerInit
    /\ BundleIdle
    /\ transportKind \in {"hotplug", "windows"}
    /\ filterPorts \in FilterStrings
    /\ m_filterPorts = ParseFilterPortString(filterPorts)
    /\ handed = {}
    /\ opened = {}
    /\ rejected = {}
    /\ arrivals = 0
    /\ winPc = "idle"
    /\ retry = FALSE
    /\ retryCount = 0

transportUntouched ==
    << sessionCore, sendVars, managerVars, bundleVars, frameVars, monitorVars,
       transportKind,
       filterPorts,
       m_filterPorts >>

\* USBTransport::HotplugEventCallback, for a device of the registered
\* vendor and product: a failed descriptor read and a departure hand over
\* nothing; an arrival goes through the filter and then to the callback
HotplugEventCallback(dev, event, descriptorOk) ==
    /\ transportKind = "hotplug"
    /\ arrivals < MaxArrivals
    /\ arrivals' = arrivals + 1
    /\ LET usbPath == ConstructUSBPath(dev)
       IN IF descriptorOk /\ event = "ARRIVED"
          THEN IF ~IsValidPort(m_filterPorts, usbPath)
               THEN /\ rejected' = rejected \cup {usbPath}
                    /\ UNCHANGED handed
               ELSE /\ handed' = handed \cup {usbPath}
                    /\ UNCHANGED rejected
          ELSE UNCHANGED << handed, rejected >>
    /\ UNCHANGED << transportUntouched, opened, winPc, retry, retryCount >>

\* WinUSBTransport::ProcessPendingDevices up to its first device list
ProcessPendingDevices ==
    /\ transportKind = "windows"
    /\ winPc = "idle"
    /\ arrivals < MaxArrivals
    /\ winPc' = "list"
    /\ retry' = FALSE
    /\ retryCount' = 0
    /\ UNCHANGED << transportUntouched, handed, opened, rejected, arrivals >>

\* ProcessPendingDevices: the loop body for one device of the list
VisitDevice(dev, descriptorOk, matches, openRet) ==
    /\ winPc = "list"
    /\ arrivals < MaxArrivals
    /\ arrivals' = arrivals + 1
    /\ LET usbPath == ConstructUSBPath(dev)
       IN IF ~descriptorOk
          THEN UNCHANGED << handed, opened, rejected, retry, winPc >>
          ELSE IF ~IsValidPort(m_filterPorts, usbPath)
          THEN /\ rejected' = rejected \cup {usbPath}
               /\ UNCHANGED << handed, opened, retry, winPc >>
          ELSE IF ~matches
          THEN UNCHANGED << handed, opened, rejected, retry, winPc >>
          ELSE /\ opened' = opened \cup {usbPath}
               /\ UNCHANGED rejected
               /\ CASE openRet = "ACCESS" ->
                         UNCHANGED << handed, retry, winPc >>
                    [] openRet = "NO_DEVICE" ->
                         /\ retry' = TRUE
                         /\ winPc' = "listed"
                         /\ UNCHANGED handed
                    [] openRet = "OTHER" ->
                         UNCHANGED << handed, retry, winPc >>
                    [] OTHER ->
                         /\ retry' = FALSE
                         /\ handed' = handed \cup {usbPath}
                         /\ UNCHANGED winPc
    /\ UNCHANGED << transportUntouched, retryCount >>

\* ProcessPendingDevices: the device list is exhausted
EndOfDeviceList ==
    /\ winPc = "list"
    /\ winPc' = "listed"
    /\ UNCHANGED << transportUntouched, handed, opened, rejected, arrivals,
                    retry, retryCount >>

\* ProcessPendingDevices after libusb_free_device_list: another pass when
\* retry is set and fewer than three passes were made, else the return
RetryOrReturn ==
    /\ winPc = "listed"
    /\ IF retry /\ retryCount + 1 < 3
       THEN /\ retry' = FALSE
            /\ retryCount' = retryCount + 1
            /\ winPc' = "list"
       ELSE /\ winPc' = "idle"
            /\ retry' = FALSE
            /\ retryCount' = 0
    /\ UNCHANGED << transportUntouched, handed, opened, rejected, arrivals >>

TransportNext ==
    \/ \E dev \in BusDevices, event \in {"ARRIVED", "LEFT"},
          descriptorOk \in BOOLEAN :
          HotplugEventCallback(dev, event, descriptorOk)
    \/ ProcessPendingDevices
    \/ \E dev \in BusDevices, descriptorOk \in BOOLEAN, matches \in BOOLEAN,
          openRet \in {"OK", "ACCESS", "NO_DEVICE", "OTHER"} :
          VisitDevice(dev, descriptorOk, matches, openRet)
    \/ EndOfDeviceList
    \/ RetryOrReturn

SpecTransport == TransportInit /\ [][TransportNext]_vars

\* the prefixes a filter string configures: its maximal non-empty stretches
\* without a comma
ConfiguredPrefixes(str) ==
    { SubSeq(str, i, j) : i \in 1..Len(str), j \in 1..Len(str) } \cap
    { q \in UNION { [1..n -> FilterChars \ {","}] : n \in 1..MaxFilterLen } :
        \E i \in 1..Len(str) :
          LET j == i + Len(q) - 1
          IN /\ j <= Len(str)
             /\ SubSeq(str, i, j) = q
             /\ (i = 1 \/ str[i - 1] = ",")
             /\ (j = Len(str) \/ str[j + 1] = ",") }

\* path starts with prefix
StartsWith(path, prefix) ==
    \E rest \in 0..Len(path) :
       /\ Len(prefix) + rest = Len(path)
       /\ SubSeq(path, 1, Len(prefix)) = prefix

\* C17: when the path allowlist is non-empty, every device that was opened
\* or handed to the device-arrival sink has a bus path that starts with a
\* configured prefix, on the hotplug transport and on the Windows
\* enumeration transport; with an empty allowlist no device is turned away.
C17_AllowlistRespected ==
    LET prefixes == ConfiguredPrefixes(filterPorts)
    IN /\ prefixes # {} =>
            \A path \in handed \cup opened :
               \E q \in prefixes : StartsWith(path, q)
       /\ prefixes = {} => rejected = {}

\* the Windows transport, under a non-empty allowlist, has turned one device
\* away and has opened and handed over another
AllowlistSplitsDevices ==
    /\ transportKind = "windows"
    /\ ConfiguredPrefixes(filterPorts) # {}
    /\ rejected # {}
    /\ opened # {}
    /\ handed # {}


-----------------------------------------------------------------------------
\* SpecBundle: AstraDeviceManagerImpl::Update choosing the boot bundle of an
\* update job that pins no bundle id.  A bundle is the record of the
\* attributes the choice reads; m_bootImage and the matching list hold
\* positions in m_bootImages, which stand for the shared pointers of the code.

MaxBundles == 3

\* the chip of the flash image; the job names no board, so that
\* GetBootImagesForChip takes its boardName.empty() branch
JobChipName == "sl1680"

Bundles ==
    [ chip : {"sl1680", "sl1640"},
      variant : {"UBOOT", "SYNAPTICS"},
      uEnvSupport : BOOLEAN,
      console : {"UART", "USB"} ]

BundleLists == UNION { [1..n -> Bundles] : n \in 0..MaxBundles }

\* BootImageCollection::GetBootImagesForChip: the bundles of the chip, in the
\* order of the collection
RECURSIVE GetBootImagesForChip(_, _, _)
GetBootImagesForChip(images, chipName, i) ==
    IF i > Len(images) THEN << >>
    ELSE IF images[i].chip = chipName
         THEN << i >> \o GetBootImagesForChip(images, chipName, i + 1)
         ELSE GetBootImagesForChip(images, chipName, i + 1)

\* the loop wrongly keeping the first bundle
KeepBootImage(images, current, bootImage) == current

\* one turn of the loop of Update: the choice after looking at bootImage
PreferBootImage(images, current, bootImage) ==
    IF images[bootImage].uEnvSupport
    THEN bootImage
    ELSE IF ~images[current].uEnvSupport /\ images[bootImage].console = "USB"
         THEN bootImage
         ELSE current

\* the loop of Update from position i of the matching list, with its break
RECURSIVE ChooseFrom(_, _, _, _)
ChooseFrom(images, bootImages, i, current) ==
    IF i > Len(bootImages) THEN current
    ELSE IF /\ images[bootImages[i]].variant = "SYNAPTICS"
            /\ images[bootImages[i]].uEnvSupport
         THEN bootImages[i]
         ELSE ChooseFrom(images, bootImages, i + 1,
                         PreferBootImage(images, current, bootImages[i]))

\* Update with an empty boot image id: throws when no bundle matches
ManagerUpdate ==
    /\ updatePc = "update"
    /\ LET bootImages == GetBootImagesForChip(m_bootImages, JobChipName, 1)
       IN  IF Len(bootImages) = 0
           THEN /\ updatePc' = "thrown"
                /\ UNCHANGED m_bootImage
           ELSE /\ updatePc' = "init"
                /\ m_bootImage' =
                       IF Len(bootImages) > 1
                       THEN ChooseFrom(m_bootImages, bootImages, 1,
                                       bootImages[1])
                       ELSE bootImages[1]
    /\ UNCHANGED << sessionCore, sendVars, managerVars, transportVars,
                    frameVars, monitorVars, m_bootImages >>

\* Update going on to Init() with the chosen bundle
ManagerInitCall ==
    /\ updatePc = "init"
    /\ updatePc' = "done"
    /\ UNCHANGED << sessionCore, sendVars, managerVars, transportVars,
                    frameVars, monitorVars, m_bootImages, m_bootImage >>

BundleInit ==
    /\ cfg = CHOOSE c \in Configs : c.bootOnly /\ c.uEnvSupport
    /\ SessionInit
    /\ SendIdle
    /\ UsbIdle
    /\ ManagerInit
    /\ transportKind = "hotplug"
    /\ filterPorts = << >>
    /\ m_filterPorts = ParseFilterPortString(filterPorts)
    /\ handed = {}
    /\ opened = {}
    /\ rejected = {}
    /\ arrivals = 0
    /\ winPc = "idle"
    /\ retry = FALSE
    /\ retryCount = 0
    /\ FrameIdle
    /\ m_bootImages \in BundleLists
    /\ m_bootImage = 0
    /\ updatePc = "update"

BundleNext ==
    \/ ManagerUpdate
    \/ ManagerInitCall

SpecBundle == BundleInit /\ [][BundleNext]_vars

\* the matching bundles of the job, as positions in the collection
Matching == GetBootImagesForChip(m_bootImages, JobChipName, 1)

MatchingSet == { Matching[k] : k \in 1..Len(Matching) }

VendorUEnv(b) == m_bootImages[b].variant = "SYNAPTICS" /\ m_bootImages[b].uEnvSupport

UEnv(b) == m_bootImages[b].uEnvSupport

UsbConsoleNoUEnv(b) == ~m_bootImages[b].uEnvSupport /\ m_bootImages[b].console = "USB"

\* C21: when Update has chosen among a non-empty list of matching bundles, the
\* chosen bundle is a matching one and it is a vendor U-Boot bundle with uEnv
\* support if the list has one; otherwise a bundle with uEnv support if the
\* list has one; otherwise a bundle with USB console and no uEnv support if
\* the list has one; otherwise the first bundle of the list.
C21_BestBundleChosen ==
    (updatePc \in {"init", "done"} /\ Len(Matching) > 0) =>
        /\ m_bootImage \in MatchingSet
        /\ IF \E b \in MatchingSet : VendorUEnv(b)
           THEN VendorUEnv(m_bootImage)
           ELSE IF \E b \in MatchingSet : UEnv(b)
                THEN UEnv(m_bootImage)
                ELSE IF \E b \in MatchingSet : UsbConsoleNoUEnv(b)
                     THEN UsbConsoleNoUEnv(m_bootImage)
                     ELSE m_bootImage = Matching[1]

\* a USB-console bundle was chosen over an earlier UART bundle, with a bundle
\* of another chip in the collection
UsbConsoleChosenOverFirst ==
    /\ updatePc = "done"
    /\ Len(Matching) > 1
    /\ Len(Matching) < Len(m_bootImages)
    /\ ~ \E b \in MatchingSet : UEnv(b)
    /\ m_bootImage # Matching[1]
    /\ UsbConsoleNoUEnv(m_bootImage)


-----------------------------------------------------------------------------
\* SpecFrame: AstraDeviceImpl::HandleInterrupt reading one interrupt frame
\* byte by byte.  A frame is a sequence of bytes; "NUL" is the zero byte and
\* "y" the tag byte 0x79.

\* bytes before the marker and after it in the frames of the model
MaxLead == 1
MaxTail == 3

m_imageRequestString == << "i", "*", "m", "*", "g", "*", "r", "*", "q", "*" >>

Nul == "NUL"

\* std::string::npos
npos == 0 - 1

BytesUpTo(chars, n) == UNION { [1..k -> chars] : k \in 0..n }

\* the frames the callback worker hands over: text, or the marker with up to
\* MaxLead bytes before it and up to MaxTail bytes after it
Frames ==
    { lead \o mid \o tail :
        lead \in BytesUpTo({"i", "a"}, MaxLead),
        mid \in {<< >>, m_imageRequestString},
        tail \in BytesUpTo({"y", "a", Nul}, MaxTail) }

\* s.find(pat): the position, from 0, of the first occurrence of pat in s,
\* or npos
Find(str, pat) ==
    LET hits == { p \in 0..(Len(str) - Len(pat)) :
                     SubSeq(str, p + 1, p + Len(pat)) = pat }
    IN IF hits = {} THEN npos
       ELSE CHOOSE p \in hits : \A q \in hits : p <= q

\* s.find_last_not_of('\0'): the position, from 0, of the last byte that is
\* not NUL, or npos
FindLastNotOfNul(str) ==
    LET hits == { p \in 0..(Len(str) - 1) : str[p + 1] # Nul }
    IN IF hits = {} THEN npos
       ELSE CHOOSE p \in hits : \A q \in hits : q <= p

\* s.substr(pos), for pos <= s.size()
Substr(str, pos) == SubSeq(str, pos + 1, Len(str))

\* what HandleInterrupt does with the bytes of a frame.  Without the marker
\* the frame goes to the console.  With it, "m_imageType = buf[it]" reads the
\* byte after the marker and "message.substr(it + 1)" the name: when the
\* frame ends with the marker, buf[it] is one byte past the frame and
\* substr throws std::out_of_range (it + 1 > size); crashed tells whether
\* the read past the end has ended the process before the throw.
HandleInterruptBytes(buf, crashed) ==
    LET found == Find(buf, m_imageRequestString)
        it == found + Len(m_imageRequestString)
        imageName == Substr(buf, it + 1)
        end == FindLastNotOfNul(imageName)
    IN IF found = npos
       THEN [kind |-> "console", tag |-> "", name |-> << >>,
             console |-> buf, readPast |-> FALSE]
       ELSE IF it >= Len(buf)
            THEN [kind |-> IF crashed THEN "crashed" ELSE "thrown",
                  tag |-> "", name |-> << >>, console |-> << >>,
                  readPast |-> TRUE]
            ELSE [kind |-> "request", tag |-> buf[it + 1],
                  name |-> IF end # npos THEN SubSeq(imageName, 1, end + 1)
                           ELSE imageName,
                  console |-> << >>, readPast |-> FALSE]

\* the callback worker calls HandleInterrupt with the frame
HandleInterruptCall ==
    /\ irqHandled = << >>
    /\ \E crashed \in BOOLEAN :
          irqHandled' = << HandleInterruptBytes(irqMessage, crashed) >>
    /\ UNCHANGED << sessionCore, sendVars, managerVars, transportVars,
                    bundleVars, monitorVars, irqMessage >>

FrameInit ==
    /\ cfg = CHOOSE c \in Configs : c.bootOnly /\ c.uEnvSupport
    /\ MonitorIdle
    /\ SessionInit
    /\ SendIdle
    /\ UsbIdle
    /\ ManagerInit
    /\ transportKind = "hotplug"
    /\ filterPorts = << >>
    /\ m_filterPorts = ParseFilterPortString(filterPorts)
    /\ handed = {}
    /\ opened = {}
    /\ rejected = {}
    /\ arrivals = 0
    /\ winPc = "idle"
    /\ retry = FALSE
    /\ retryCount = 0
    /\ m_bootImages = << >>
    /\ m_bootImage = 0
    /\ updatePc = "done"
    /\ irqMessage \in Frames
    /\ irqHandled = << >>

FrameNext == HandleInterruptCall

SpecFrame == FrameInit /\ [][FrameNext]_vars

\* the frame holds the marker, and a tag byte after it
HasMarker(buf) == Find(buf, m_imageRequestString) # npos

HasTag(buf) ==
    /\ HasMarker(buf)
    /\ Find(buf, m_imageRequestString) + Len(m_imageRequestString) < Len(buf)

\* the bytes of buf after the tag byte, up to the first NUL
RECURSIVE UpToNul(_)
UpToNul(str) ==
    IF str = << >> \/ Head(str) = Nul THEN << >>
    ELSE << Head(str) >> \o UpToNul(Tail(str))

NameInFrame(buf) ==
    UpToNul(Substr(buf, Find(buf, m_imageRequestString)
                          + Len(m_imageRequestString) + 1))

\* C33: a frame that holds the marker (and a tag byte) is a request for the
\* bytes after the tag byte up to the first NUL and is not appended to the
\* console; a frame without the marker is appended to the console and is no
\* request.
C33_RequestNameStopsAtNul ==
    irqHandled # << >> =>
        IF HasTag(irqMessage)
        THEN /\ irqHandled[1].kind = "request"
             /\ irqHandled[1].name = NameInFrame(irqMessage)
             /\ irqHandled[1].console = << >>
        ELSE HasMarker(irqMessage) \/
             (irqHandled[1].kind = "console" /\
              irqHandled[1].console = irqMessage)

\* C34: whatever the length and the bytes of a frame, also when it ends
\* right after the marker or right after the tag byte, HandleInterrupt reads
\* no byte past its end and throws nothing on the callback thread.
C34_FrameHandledWithoutThrow ==
    irqHandled # << >> =>
        /\ ~irqHandled[1].readPast
        /\ irqHandled[1].kind \in {"request", "console"}


-----------------------------------------------------------------------------
\* SpecBoot: Boot() preparing the image list and the final-boot image, for
\* every kind of bundle AstraBootImage::Load can produce.

\* the jobs: the manifest and the files of the bundle, and the session.  The
\* boot command of an update session is its flash command, never empty.
BootJobs ==
    { j \in [ bootOnly : BOOLEAN, bootCommandEmpty : BOOLEAN,
              uEnvSupport : BOOLEAN, uEnvFile : BOOLEAN,
              linuxBoot : BOOLEAN, secureBoot : {"V2", "V3"} ] :
        ~j.bootOnly => ~j.bootCommandEmpty }

\* AstraBootImage::Load: one image for every file of the bundle directory
\* but the manifest
LoadedImages(j) ==
    (IF j.linuxBoot
     THEN << [name |-> "Image.gz", type |-> "BOOT"],
             [name |-> "ramdisk.cpio.gz", type |-> "BOOT"] >>
     ELSE IF j.secureBoot = "V2"
          THEN << [name |-> "minildr.img", type |-> "BOOT"] >>
          ELSE BundleImages)
    \o (IF j.uEnvFile THEN << [name |-> m_uEnvFilename, type |-> "BOOT"] >>
        ELSE << >>)

\* AstraBootImage::Load: the final boot image of the bundle
LoadedFinalBootImage(j) ==
    IF j.linuxBoot THEN "ramdisk.cpio.gz"
    ELSE IF j.secureBoot = "V2" THEN "minildr.img"
         ELSE IF j.uEnvSupport THEN m_uEnvFilename
              ELSE "gen3_uboot.bin.usb"

\* Boot(): "m_finalBootImage = bootImage->GetFinalBootImage()"
BootTakesBundle ==
    /\ appPc = "boot"
    /\ m_finalBootImage' = LoadedFinalBootImage(cfg)
    /\ appPc' = "boot_prepare"
    /\ UNCHANGED << fixed, m_status, m_running, m_shutdown, m_images,
                    m_finalUpdateImage, requestSlot,
                    m_imageRequestThreadReady, reqLocals, sizeFile,
                    imageMutex, closeMutex, usbState, reqPc, cbPc, mainPc,
                    closePc, sink, closeReturned, history >>

\* Boot(): the image list and the final-boot image, under m_imageMutex
BootListsImages ==
    /\ appPc = "boot_prepare"
    /\ imageMutex = "free"
    /\ m_images' = m_images \o BootImagesWith(LoadedImages(cfg),
                                              cfg.uEnvSupport)
    /\ m_finalBootImage' =
          FinalBootImageWith(LoadedImages(cfg), cfg.uEnvSupport,
                             cfg.bootCommandEmpty, cfg.bootOnly,
                             cfg.linuxBoot, m_finalBootImage)
    /\ appPc' = "boot_listed"
    /\ UNCHANGED << fixed, m_status, m_running, m_shutdown,
                    m_finalUpdateImage, requestSlot,
                    m_imageRequestThreadReady, reqLocals, sizeFile,
                    imageMutex, closeMutex, usbState, reqPc, cbPc, mainPc,
                    closePc, sink, closeReturned, history >>

BootInit ==
    /\ cfg \in BootJobs
    /\ SessionInit
    /\ SendIdle
    /\ UsbIdle
    /\ ManagerInit
    /\ TransportIdle

BootNext ==
    \/ BootTakesBundle
    \/ BootListsImages

SpecBoot == BootInit /\ [][BootNext]_vars

\* the images of the list named uEnv.txt
UEnvImages == { i \in 1..Len(m_images) : m_images[i].name = m_uEnvFilename }

\* Boot() has made a uEnv.txt of its own: the list holds one more than the
\* bundle
UEnvSynthesized ==
    Cardinality(UEnvImages) = (IF cfg.uEnvFile THEN 1 ELSE 0) + 1

\* C35: once Boot() has prepared the image list, a uEnv.txt was made and
\* appended if and only if the bundle supports uEnv and has no image named
\* uEnv.txt; the final-boot image is uEnv.txt if a uEnv.txt was made and the
\* boot command is empty, or if the session is an update session and the
\* bundle a Linux-boot bundle, and the final boot image of the bundle
\* otherwise.
C35_ListAndFinalBootImage ==
    appPc = "boot_listed" =>
        /\ UEnvSynthesized <=> (cfg.uEnvSupport /\ ~cfg.uEnvFile)
        /\ ~UEnvSynthesized =>
              Cardinality(UEnvImages) = (IF cfg.uEnvFile THEN 1 ELSE 0)
        /\ m_finalBootImage =
              IF \/ UEnvSynthesized /\ cfg.bootCommandEmpty
                 \/ ~cfg.bootOnly /\ cfg.linuxBoot
              THEN m_uEnvFilename
              ELSE LoadedFinalBootImage(cfg)

\* a uEnv.txt made for an empty boot command has replaced the final boot
\* image of a secure-boot V2 bundle
FinalBootImageOverridden ==
    /\ appPc = "boot_listed"
    /\ UEnvSynthesized
    /\ cfg.bootCommandEmpty
    /\ LoadedFinalBootImage(cfg) = "minildr.img"
    /\ m_finalBootImage = m_uEnvFilename

\* C36: whenever the final-boot image is uEnv.txt, the image list holds an
\* image named uEnv.txt.
C36_FinalUEnvIsListed ==
    (appPc = "boot_listed" /\ m_finalBootImage = m_uEnvFilename) =>
        UEnvImages # {}


\* the Update* phases
UpdatePhases ==
    {"UPDATE_START", "UPDATE_PROGRESS", "UPDATE_COMPLETE", "UPDATE_FAIL"}

\* C37: in a boot-only session the phase never takes an Update* value,
\* whatever the device requests.
C37_BootOnlyNeverUpdates ==
    cfg.bootOnly => m_status \notin UpdatePhases


-----------------------------------------------------------------------------
\* SpecReady: the ready handshake of Boot() and the request-serving thread,
\* step by step.  HandleImageRequests stores m_imageRequestThreadReady and
\* calls notify_all without holding m_imageRequestThreadReadyMutex; Boot()
\* evaluates the predicate of its wait and, when it is false, blocks on the
\* condition variable.

readyFrame ==
    << fixed, m_status, m_running, m_shutdown, sessionData, requestSlot,
       reqLocals, sizeFile, imageMutex, closeMutex, usbState, cbPc, mainPc,
       closePc, sink, closeReturned, history >>

\* HandleImageRequests: "m_imageRequestThreadReady.store(true)"
ReadyStore ==
    /\ reqPc = "start"
    /\ m_imageRequestThreadReady' = TRUE
    /\ reqPc' = "notify"
    /\ UNCHANGED << readyFrame, appPc >>

\* HandleImageRequests: "m_imageRequestThreadReadyCV.notify_all()" wakes
\* Boot() if it is blocked on the condition variable, and nobody otherwise
ReadyNotify ==
    /\ reqPc = "notify"
    /\ reqPc' = "wait"
    /\ appPc' = IF appPc = "boot_blocked" THEN "boot_wait_ready" ELSE appPc
    /\ UNCHANGED << readyFrame, m_imageRequestThreadReady >>

\* Boot(): the predicate of the wait is false
ReadyPredicateFalse ==
    /\ appPc = "boot_wait_ready"
    /\ ~m_imageRequestThreadReady
    /\ appPc' = "boot_blocking"
    /\ UNCHANGED << readyFrame, reqPc, m_imageRequestThreadReady >>

\* Boot(): the wait blocks on the condition variable
ReadyBlock ==
    /\ appPc = "boot_blocking"
    /\ appPc' = "boot_blocked"
    /\ UNCHANGED << readyFrame, reqPc, m_imageRequestThreadReady >>

\* a condition variable may wake up with no notification
ReadySpuriousWake ==
    /\ appPc = "boot_blocked"
    /\ appPc' = "boot_wait_ready"
    /\ UNCHANGED << readyFrame, reqPc, m_imageRequestThreadReady >>

ReadyNext ==
    \/ BootOpen
    \/ BootPrepare
    \/ ReadyStore
    \/ ReadyNotify
    \/ ReadyPredicateFalse
    \/ ReadyBlock
    \/ ReadySpuriousWake
    \/ BootEnable
    \/ \E r \in DeviceRequests(cfg) : DeviceRequest(r[1], r[2])
    \/ CallbackWorkerHead
    \/ CallbackWorkerDispatch

SpecReady == Init /\ [][ReadyNext]_vars

\* every step of the two threads is taken when it can be; a spurious wake-up
\* is never owed
SpecReadyFair ==
    /\ SpecReady
    /\ WF_vars(BootOpen)
    /\ WF_vars(BootPrepare)
    /\ WF_vars(ReadyStore)
    /\ WF_vars(ReadyNotify)
    /\ WF_vars(ReadyPredicateFalse)
    /\ WF_vars(ReadyBlock)
    /\ WF_vars(BootEnable)
    /\ WF_vars(CallbackWorkerHead)
    /\ WF_vars(CallbackWorkerDispatch)

\* C38: Boot() never blocks forever on the ready handshake: once it waits for
\* the request-serving thread it goes on to enable interrupts, in every
\* interleaving of the thread's flag store and notify with the predicate
\* wait; and the callback worker runs only after the thread signalled ready.
C38_BootPassesHandshake ==
    /\ (appPc = "boot_wait_ready") ~> m_callbackThreadRunning
    /\ [](m_callbackThreadRunning \/ received # << >>
              => m_imageRequestThreadReady)


-----------------------------------------------------------------------------
\* SpecShutdown: AstraDeviceManagerImpl::Shutdown on the main thread and the
\* event thread of the transport, which runs DeviceAddedCallback inside
\* libusb's event handling.

\* what the two threads leave alone
monitorFrame ==
    << sessionCore, sendVars, managerVars, bundleVars, frameVars,
       transportKind, filterPorts, m_filterPorts, handed, opened, rejected,
       winPc, retry, retryCount >>

\* DeviceMonitorThread: libusb_handle_events_timeout_completed calls the
\* hotplug callback for an arrival, which calls DeviceAddedCallback; the
\* session object is made before the lock is asked for
ArrivalCallback ==
    /\ monitorPc = "events"
    /\ monitorRunning
    /\ arrivals < MaxArrivals
    /\ arrivals' = arrivals + 1
    /\ monitorPc' = "callback"
    /\ UNCHANGED << monitorFrame, m_devicesMutex, m_devices, managerPc,
                    monitorRunning >>

\* DeviceAddedCallback: "std::lock_guard<std::mutex> lock(m_devicesMutex)"
ArrivalLock ==
    /\ monitorPc = "callback"
    /\ m_devicesMutex = "free"
    /\ m_devicesMutex' = "event"
    /\ monitorPc' = "adding"
    /\ UNCHANGED << monitorFrame, arrivals, m_devices, managerPc,
                    monitorRunning >>

\* DeviceAddedCallback: the session joins m_devices, its thread is detached,
\* the lock is released and the callback returns
ArrivalAdd ==
    /\ monitorPc = "adding"
    /\ m_devices' = Append(m_devices, "open")
    /\ m_devicesMutex' = "free"
    /\ monitorPc' = "events"
    /\ UNCHANGED << monitorFrame, arrivals, managerPc, monitorRunning >>

\* DeviceMonitorThread: "while (m_running.load())" ends the thread
MonitorExit ==
    /\ monitorPc = "events"
    /\ ~monitorRunning
    /\ monitorPc' = "exited"
    /\ UNCHANGED << monitorFrame, arrivals, m_devicesMutex, m_devices,
                    managerPc, monitorRunning >>

\* AstraDeviceManagerImpl::Shutdown: the lock on m_devicesMutex, held to the
\* return
ShutdownLock ==
    /\ managerPc = "running"
    /\ m_devicesMutex = "free"
    /\ m_devicesMutex' = "main"
    /\ managerPc' = "closing"
    /\ UNCHANGED << monitorFrame, arrivals, m_devices, monitorPc,
                    monitorRunning >>

\* Shutdown: "device->Close()" for the next session of the list
ShutdownClosesDevice ==
    /\ managerPc = "closing"
    /\ \E i \in 1..Len(m_devices) :
          /\ m_devices[i] = "open"
          /\ \A k \in 1..(i - 1) : m_devices[k] = "closed"
          /\ m_devices' = [m_devices EXCEPT ![i] = "closed"]
    /\ UNCHANGED << monitorFrame, arrivals, m_devicesMutex, managerPc,
                    monitorPc, monitorRunning >>

\* Shutdown: "m_devices.clear()" after the loop
ShutdownClearsDevices ==
    /\ managerPc = "closing"
    /\ \A i \in 1..Len(m_devices) : m_devices[i] = "closed"
    /\ m_devices' = << >>
    /\ managerPc' = "transport"
    /\ UNCHANGED << monitorFrame, arrivals, m_devicesMutex, monitorPc,
                    monitorRunning >>

\* USBTransport::Shutdown: m_running.exchange(false), the hotplug callback is
\* deregistered and the event handler interrupted
TransportStops ==
    /\ managerPc = "transport"
    /\ monitorRunning' = FALSE
    /\ managerPc' = "join"
    /\ UNCHANGED << monitorFrame, arrivals, m_devicesMutex, m_devices,
                    monitorPc >>

\* USBTransport::Shutdown: "m_deviceMonitorThread.join()"; then Shutdown
\* returns and its lock_guard releases m_devicesMutex
TransportJoined ==
    /\ managerPc = "join"
    /\ monitorPc = "exited"
    /\ managerPc' = "returned"
    /\ m_devicesMutex' = "free"
    /\ UNCHANGED << monitorFrame, arrivals, m_devices, monitorPc,
                    monitorRunning >>

ShutdownInit ==
    /\ cfg \in Configs
    /\ SessionInit
    /\ SendIdle
    /\ UsbIdle
    /\ ManagerInit
    /\ TransportIdle

ShutdownNext ==
    \/ ArrivalCallback
    \/ ArrivalLock
    \/ ArrivalAdd
    \/ MonitorExit
    \/ ShutdownLock
    \/ ShutdownClosesDevice
    \/ ShutdownClearsDevices
    \/ TransportStops
    \/ TransportJoined

SpecShutdown == ShutdownInit /\ [][ShutdownNext]_vars

\* both threads run when they can; the bus owes no arrival, and the
\* application calls Shutdown when it chooses to
SpecShutdownFair ==
    /\ SpecShutdown
    /\ WF_vars(ArrivalLock)
    /\ WF_vars(ArrivalAdd)
    /\ WF_vars(MonitorExit)
    /\ WF_vars(ShutdownClosesDevice)
    /\ WF_vars(ShutdownClearsDevices)
    /\ WF_vars(TransportStops)
    /\ WF_vars(TransportJoined)

\* C39: Shutdown() of the manager always returns, also when an arrival
\* callback runs on the event thread at the same time.
C39_ShutdownReturns ==
    (managerPc = "closing") ~> (managerPc = "returned")


-----------------------------------------------------------------------------
\* SpecSendFair: the serving thread keeps running SendImage until it returns.
SpecSendFair ==
    /\ SpecSend
    /\ WF_vars(SendNext)

\* the payload bytes the bulk endpoint reported as transferred
PayloadTransferred ==
    IF totalTransferred > imageHeaderSize
    THEN totalTransferred - imageHeaderSize ELSE 0

\* C40: SendImage always terminates, for every image size and every sequence
\* of transferred byte counts the bulk endpoint reports (short and empty
\* writes included): it returns, with success only after exactly size + 8
\* bytes were transferred, and the file position never passes the bytes that
\* were transferred.
C40_SendImageTerminates ==
    /\ <>(sendPc = "done")
    /\ [](sendPc = "done" /\ sendRet = 0 =>
             WideOf(totalTransferred) = WideAdd(fileSize, imageHeaderSize))
    /\ [](sendPc = "loop" => ~WideLess(WideOf(PayloadTransferred), filePos))

=============================================================================
